---- MODULE Spec2Model ----
(***************************************************************************)
(* Verification model of the sort-merge join preparation stage             *)
(* (RadixClusterSort<T>, T = a signed integer column type).                *)
(*                                                                         *)
(* A record is [value, row_id]; row_id = <<chunk index, chunk offset>>,    *)
(* both 0-based as in the source.  Cluster ids are 0-based in the source;  *)
(* cluster c is element c + 1 of a TLA+ sequence.                          *)
(***************************************************************************)
EXTENDS Integers, Sequences, FiniteSets, TLC

(***************************************************************************)
(* Bounds of the model.                                                    *)
(***************************************************************************)
\* the rows of the left and the right table together
MaxRows == 3
\* cluster_count ranges over 0..MaxClusterCount: the valid counts 1, 2, 4 and
\* the invalid counts 0, 3
MaxClusterCount == 4

\* A table has one chunk (one job clusters it) or two (two concurrent jobs).
ChunkCounts == {1, 2}

\* Column values: a negative value, zero and a positive even value, so that
\* the low bits differ for cluster_count = 2 and 4 and orders are non-trivial.
Values == {0 - 1, 0, 2}

\* A null shared_ptr<const Table>.  Every table has at least one chunk, so the
\* empty sequence is not a table.
NullTable == <<>>

VARIABLES
    pc,                 \* position of the driver (constructor / execute())
    input_table_left,   \* _input_table_left: sequence of chunks of values, or NullTable
    input_table_right,  \* _input_table_right
    equi_case,          \* _equi_case
    cluster_count,      \* _cluster_count
    chunks_left,        \* execute(): materialized left column
    chunks_right,       \* execute(): materialized right column
    output_left,        \* _output_left
    output_right,       \* _output_right
    side,               \* which input the running _cluster call partitions
    output_table,       \* _cluster: output_table
    cluster_mutexes,    \* _cluster: cluster_mutexes, 0 = unlocked, t = held by job t
    cluster_jobs,       \* _cluster: the job of each chunk, [state, pos]
    sample_values,      \* _range_cluster: sample_values (one histogram per split)
    split_values,       \* _range_cluster: split_values
    statistics,         \* a ColumnStatistics object: the receiver of the calls
    estimate,           \* what the last predicate_selectivity call returned
    accessed,           \* what the last distinct_count(), min() or max() call returned
    aggregates,         \* how often each Aggregate operator was executed
    first_values,       \* what the first call of each accessor returned
    loop_thread,        \* PausableLoopThread: the line the loop thread is at
    isPaused,           \* PausableLoopThread::isPaused
    shutdownFlag,       \* PausableLoopThread::shutdownFlag
    m,                  \* PausableLoopThread::m: the holder of the mutex
    counter,            \* the counter of the loop: the invocations of loop_func
    loop_sleep,         \* the loop_sleep the thread was constructed with
    caller_pc,          \* the line the caller of pause, resume and finish is at
    last_call,          \* the last call that returned to the caller
    finish_call         \* whether finish() was called and whether it returned

\* the state of RadixClusterSort
driver_vars == <<pc, input_table_left, input_table_right, equi_case, cluster_count,
                 chunks_left, chunks_right, output_left, output_right, side,
                 output_table, cluster_mutexes, cluster_jobs, sample_values, split_values>>

\* the state of the selectivity estimator
estimator_vars == <<statistics, estimate, accessed, aggregates, first_values>>

loop_vars == <<loop_thread, isPaused, shutdownFlag, m, counter, loop_sleep,
               caller_pc, last_call, finish_call>>

vars == <<driver_vars, estimator_vars, loop_vars>>

(***************************************************************************)
(* Helpers on sequences.                                                   *)
(***************************************************************************)
RECURSIVE SumLen(_)
\* _materialized_table_size: total number of records of a list of chunks
SumLen(table) ==
    IF table = <<>> THEN 0 ELSE Len(Head(table)) + SumLen(Tail(table))

RECURSIVE Flatten(_)
Flatten(table) ==
    IF table = <<>> THEN <<>> ELSE Head(table) \o Flatten(Tail(table))

RemoveAt(s, i) == SubSeq(s, 1, i - 1) \o SubSeq(s, i + 1, Len(s))

IsSortedByValue(s) == \A i \in 1..(Len(s) - 1) : s[i].value <= s[i + 1].value

(***************************************************************************)
(* Input tables.                                                           *)
(***************************************************************************)
\* the chunk sizes of a table: at least one chunk, chunks may be empty
Shapes == UNION {[1..n -> 0..MaxRows] : n \in ChunkCounts}

RECURSIVE SumOf(_)
SumOf(sizes) == IF sizes = <<>> THEN 0 ELSE Head(sizes) + SumOf(Tail(sizes))

RECURSIVE TableOf(_, _)
\* the table with the given chunk sizes whose rows hold the given values in order
TableOf(sizes, values) ==
    IF sizes = <<>> THEN <<>>
    ELSE <<SubSeq(values, 1, Head(sizes))>>
         \o TableOf(Tail(sizes), SubSeq(values, Head(sizes) + 1, Len(values)))

\* the tables with exactly the given number of rows
TablesWithRows(rows) ==
    {TableOf(sizes, values) :
        sizes \in {sh \in Shapes : SumOf(sh) = rows}, values \in [1..rows -> Values]}

RowCountOf(table) == SumLen(table)

(***************************************************************************)
(* Unsigned 32-bit arithmetic.  2^32 is outside the integers of TLC, so    *)
(* a uint32 is kept as two 16-bit limbs <<high, low>>.                     *)
(***************************************************************************)
Limb == 2^16

\* static_cast<uint32_t>(x) of a signed or 64-bit unsigned integer x
ToUint32(x) == <<((x - (x % Limb)) \div Limb) % Limb, x % Limb>>

RECURSIVE BitAnd(_, _)
BitAnd(a, b) ==
    IF a = 0 \/ b = 0 THEN 0
    ELSE (a % 2) * (b % 2) + 2 * BitAnd(a \div 2, b \div 2)

\* variant: the magnitude of the value is masked instead of its unsigned image
get_radix_magnitude(value, radix_bitmask) ==
    <<0, BitAnd(IF value < 0 THEN 0 - value ELSE value, radix_bitmask[2])>>

\* get_radix for arithmetic T: static_cast<uint32_t>(value) & radix_bitmask
get_radix(value, radix_bitmask) ==
    <<BitAnd(ToUint32(value)[1], radix_bitmask[1]),
      BitAnd(ToUint32(value)[2], radix_bitmask[2])>>

(***************************************************************************)
(* ColumnMaterializer (column_materializer.hpp): one record per source row, *)
(* per chunk; with sort_per_chunk each chunk is ordered by value.           *)
(***************************************************************************)
RECURSIVE InsertByValue(_, _)
\* insert record r behind every record whose value is <= r.value
InsertByValue(s, r) ==
    IF s = <<>> THEN <<r>>
    ELSE IF Head(s).value <= r.value THEN <<Head(s)>> \o InsertByValue(Tail(s), r)
    ELSE <<r>> \o s

RECURSIVE SortByValue(_)
SortByValue(s) ==
    IF s = <<>> THEN <<>>
    ELSE InsertByValue(SortByValue(SubSeq(s, 1, Len(s) - 1)), s[Len(s)])

MaterializeChunk(table, c) ==
    [o \in 1..Len(table[c]) |-> [value |-> table[c][o], row_id |-> <<c - 1, o - 1>>]]

materialize(table, sort_per_chunk) ==
    [c \in 1..Len(table) |->
        IF sort_per_chunk THEN SortByValue(MaterializeChunk(table, c))
        ELSE MaterializeChunk(table, c)]

(***************************************************************************)
(* The constructor's checks.                                               *)
(***************************************************************************)
\* (cluster_count & (cluster_count - 1)) == 0 on size_t; for cluster_count = 0
\* the subtraction wraps and the conjunction is 0 as well
IsPowerOfTwoOrZero(cc) == IF cc = 0 THEN TRUE ELSE BitAnd(cc, cc - 1) = 0

\* the conjunction of the four conditions the constructor asserts
ConstructorChecks(left, right, cc) ==
    /\ cc > 0
    /\ IsPowerOfTwoOrZero(cc)
    /\ left # NullTable
    /\ right # NullTable

\* DebugAssert(cond, msg): checked in a debug build, compiled out in a release build
DebugAssertFails(debug, cond) == debug /\ ~cond

\* variant: the insert reads the first chunk in every iteration
concatenate_first_chunk(input_chunks) ==
    <<Flatten([c \in 1..Len(input_chunks) |-> input_chunks[1]])>>

(***************************************************************************)
(* _concatenate_chunks                                                     *)
(***************************************************************************)
concatenate_chunks(input_chunks) == <<Flatten(input_chunks)>>

(***************************************************************************)
(* Clusterers.  Kind "radix" carries the bit mask, kind "range" the split  *)
(* values.  The result is a uint32 / size_t cluster id as <<high, low>>.   *)
(***************************************************************************)
\* _radix_cluster: radix_bitmask = _cluster_count - 1 (size_t), passed as uint32_t
RadixBitmask(cc) == ToUint32(cc - 1)

\* variant: the last split value that is >= value decides
RangeClustererLast(value, splits, cc) ==
    IF \E i \in 0..(cc - 2) : value <= splits[i + 1]
    THEN CHOOSE i \in 0..(cc - 2) :
            /\ value <= splits[i + 1]
            /\ \A j \in (i + 1)..(cc - 2) : ~(value <= splits[j + 1])
    ELSE cc - 1

\* the lambda of _range_cluster: first split value that is >= value
RangeClusterer(value, splits, cc) ==
    IF \E i \in 0..(cc - 2) : value <= splits[i + 1]
    THEN CHOOSE i \in 0..(cc - 2) :
            /\ value <= splits[i + 1]
            /\ \A j \in 0..(i - 1) : ~(value <= splits[j + 1])
    ELSE cc - 1

Clusterer(value, equi, cc, splits) ==
    IF equi THEN get_radix(value, RadixBitmask(cc))
    ELSE <<0, RangeClusterer(value, splits, cc)>>

\* cluster_mutexes[cluster_id] / (*output_table)[cluster_id] is inside the vector
InRange(id, cc) == id[1] = 0 /\ id[2] < cc

(***************************************************************************)
(* _pick_sample_values and the split values of _range_cluster.             *)
(* A histogram is a std::map<T, size_t>: a function on the sampled values.  *)
(***************************************************************************)
IncrementCount(hist, v) ==
    IF v \in DOMAIN hist THEN [hist EXCEPT ![v] = @ + 1] ELSE hist @@ (v :> 1)

\* index = static_cast<size_t>(chunk_size * (cluster_id + 1) / float(cluster_count))
SampleIndex(chunk_size, cluster_id, cc) == (chunk_size * (cluster_id + 1)) \div cc

\* (*chunk_values)[index].value; an index outside the chunk reads whatever
\* the memory holds (garbage)
SampledValue(chunk, index, garbage) ==
    IF index < Len(chunk) THEN chunk[index + 1].value ELSE garbage

RECURSIVE SampleChunk(_, _, _, _, _)
\* the inner loop of _pick_sample_values for one chunk, cluster_id = from .. cc - 2
SampleChunk(samples, chunk, from, cc, garbage) ==
    IF from > cc - 2 THEN samples
    ELSE SampleChunk(
            [samples EXCEPT ![from + 1] =
                IncrementCount(@, SampledValue(chunk, SampleIndex(Len(chunk), from, cc), garbage))],
            chunk, from + 1, cc, garbage)

RECURSIVE pick_sample_values(_, _, _, _, _)
\* the outer loop of _pick_sample_values, chunk_number = from .. table.size() - 1;
\* garbage[c] is what an out-of-range read of chunk c returns
pick_sample_values(samples, table, from, cc, garbage) ==
    IF from > Len(table) THEN samples
    ELSE pick_sample_values(SampleChunk(samples, table[from], 0, cc, garbage[from]),
                            table, from + 1, cc, garbage)

\* std::max_element over the map with comparator a.second < b.second:
\* the first entry in key order among those with the largest count
MaxElement(hist) ==
    CHOOSE k \in DOMAIN hist :
        \A k2 \in DOMAIN hist : hist[k2] < hist[k] \/ (hist[k2] = hist[k] /\ k <= k2)

\* split_values[cluster_id] = max_element(...)->second
PickSplitValue(hist) == hist[MaxElement(hist)]

ComputeSplitValues(samples) == [i \in 1..Len(samples) |-> PickSplitValue(samples[i])]

(***************************************************************************)
(* _sort_clusters: std::sort by value; the order of records with equal     *)
(* values is unspecified, so every ordering sorted by value is a result.   *)
(***************************************************************************)
RECURSIVE SortResults(_)
SortResults(s) ==
    IF s = <<>> THEN {<<>>}
    ELSE LET least == CHOOSE i \in 1..Len(s) : \A j \in 1..Len(s) : s[i].value <= s[j].value
             firsts == {i \in 1..Len(s) : s[i].value = s[least].value}
         IN  UNION {{<<s[i]>> \o t : t \in SortResults(RemoveAt(s, i))} : i \in firsts}

\* variant: only the first cluster is sorted
sort_first_cluster(clusters) ==
    IF clusters = <<>> THEN {<<>>}
    ELSE {<<h>> \o Tail(clusters) : h \in SortResults(Head(clusters))}

RECURSIVE sort_clusters(_)
\* the set of possible results of _sort_clusters(clusters)
sort_clusters(clusters) ==
    IF clusters = <<>> THEN {<<>>}
    ELSE {<<h>> \o t : h \in SortResults(Head(clusters)), t \in sort_clusters(Tail(clusters))}

(***************************************************************************)
(* The selectivity estimator: ColumnStatistics<ColumnType> for an integer  *)
(* column type (column_statistics.cpp).                                    *)
(*                                                                         *)
(* A float is kept as the exact fraction <<numerator, denominator>> in     *)
(* lowest terms with a positive denominator; the rounding of a float to 24 *)
(* significant bits is not modelled.  An optional or a pointer is a        *)
(* sequence: <<>> is nullopt / nullptr, <<x>> holds x.                     *)
(***************************************************************************)
\* min, max and the values of a bound table's column range over 0..MaxStatValue
MaxStatValue == 2

\* the distinct counts given to the constructor
DistinctCounts == {1, 2, 3}

RECURSIVE GCD(_, _)
GCD(a, b) == IF b = 0 THEN a ELSE GCD(b, a % b)

Abs(x) == IF x < 0 THEN 0 - x ELSE x

\* the fraction n / d, d # 0
Fraction(n, d) ==
    LET g == GCD(Abs(n), Abs(d))
    IN  IF d < 0 THEN <<(0 - n) \div g, (0 - d) \div g>> ELSE <<n \div g, d \div g>>

\* static_cast<float>(i), and the implicit conversion of an integer operand
ToFloat(i) == <<i, 1>>

FloatDiv(a, b) == Fraction(a[1] * b[2], a[2] * b[1])

FloatMul(a, b) == Fraction(a[1] * b[1], a[2] * b[2])

FloatSub(a, b) == Fraction(a[1] * b[2] - b[1] * a[2], a[2] * b[2])

FloatLess(a, b) == a[1] * b[2] < b[1] * a[2]

\* std::min(a, b) on floats: b if b < a, otherwise a
FloatMin(a, b) == IF FloatLess(b, a) THEN b ELSE a

\* std::max(a, b) and std::min(a, b) on ColumnType
std_max(a, b) == IF a < b THEN b ELSE a

std_min(a, b) == IF b < a THEN b ELSE a

\* enum class ScanType; OpLike is the scan type no switch has a case for
ScanTypes ==
    {"OpEquals", "OpNotEquals", "OpLessThan", "OpLessThanEquals",
     "OpGreaterThan", "OpGreaterThanEquals", "OpBetween", "OpLike"}

\* ColumnStatistics(column_id, distinct_count, min, max): all three statistics
\* are given, the table handle is empty
ColumnStatisticsOfValues(type, column_id, distinct_count, minimum, maximum) ==
    [type |-> type, column_id |-> column_id, table |-> <<>>,
     distinct_count |-> <<distinct_count>>, min |-> <<minimum>>, max |-> <<maximum>>]

\* ColumnStatistics(column_id, table): nothing is computed yet; the table is
\* kept as the values of column column_id
ColumnStatisticsOfTable(type, column_id, column) ==
    [type |-> type, column_id |-> column_id, table |-> <<column>>,
     distinct_count |-> <<>>, min |-> <<>>, max |-> <<>>]

ColumnValues(column) == {column[i] : i \in 1..Len(column)}

\* update_distinct_count(): the row count of the aggregate grouped by the column
update_distinct_count(s) ==
    [s EXCEPT !.distinct_count = <<ToFloat(Cardinality(ColumnValues(s.table[1])))>>]

\* update_min_max(): the Min and Max aggregates of the column
update_min_max(s) ==
    [s EXCEPT !.min = <<CHOOSE v \in ColumnValues(s.table[1]) :
                            \A w \in ColumnValues(s.table[1]) : v <= w>>,
              !.max = <<CHOOSE v \in ColumnValues(s.table[1]) :
                            \A w \in ColumnValues(s.table[1]) : w <= v>>]

\* variant: the accessor does not look at the cached value
MissingDistinctCountAlways(s) == TRUE

\* if (!_distinct_count), if (!_min), if (!_max)
MissingDistinctCount(s) == s.distinct_count = <<>>

MissingMin(s) == s.min = <<>>

MissingMax(s) == s.max = <<>>

\* the object after a call of distinct_count()
AfterDistinctCount(s) == IF MissingDistinctCount(s) THEN update_distinct_count(s) ELSE s

\* the object after a call of min() or of max(): the first of them fills both
AfterMinMax(s) == IF MissingMin(s) \/ MissingMax(s) THEN update_min_max(s) ELSE s

\* what distinct_count(), min() and max() return
distinct_count(s) == AfterDistinctCount(s).distinct_count[1]

min(s) == AfterMinMax(s).min[1]

max(s) == AfterMinMax(s).max[1]

Zero == ToFloat(0)

One == ToFloat(1)

\* a ColumnStatisticsContainer / TwoColumnStatisticsContainer that was returned
Container(selectivity, column_statistics, value_column_statistics) ==
    [outcome |-> "returned", selectivity |-> selectivity,
     column_statistics |-> column_statistics,
     value_column_statistics |-> value_column_statistics]

\* the call ended without a container: "thrown" by Fail or a failed DebugAssert
\* (std::logic_error), "crashed" by the dereference of a null pointer
NoContainer(outcome) ==
    [outcome |-> outcome, selectivity |-> Zero,
     column_statistics |-> <<>>, value_column_statistics |-> <<>>]

\* a return without derived statistics on a path that has read min() or max()
ConstantEstimate(s, selectivity) ==
    [container |-> Container(selectivity, <<>>, <<>>), object |-> AfterMinMax(s)]

\* a return with std::make_shared<ColumnStatistics>(_column_id, dc, dmin, dmax)
\* on a path that has read min(), max() and distinct_count()
DerivedEstimate(s, selectivity, dc, dmin, dmax) ==
    [container |->
        Container(selectivity,
                  <<ColumnStatisticsOfValues(s.type, s.column_id, dc, dmin, dmax)>>, <<>>),
     object |-> AfterDistinctCount(AfterMinMax(s))]

\* a return whose derived distinct count is selectivity * distinct_count()
RangedEstimate(s, selectivity, dmin, dmax) ==
    DerivedEstimate(s, selectivity, FloatMul(selectivity, distinct_count(s)), dmin, dmax)

\* static_cast<float>(max() - min() + 1)
RangeWidth(s) == ToFloat(max(s) - min(s) + 1)

CaseOpEquals(s, value) ==
    IF value < min(s) \/ value > max(s) THEN ConstantEstimate(s, Zero)
    ELSE DerivedEstimate(s, FloatDiv(One, distinct_count(s)), One, value, value)

\* variant: the selectivity of "=" is returned for "!="
CaseOpNotEqualsAsEquals(s, value) ==
    IF value < min(s) \/ value > max(s) THEN ConstantEstimate(s, One)
    ELSE DerivedEstimate(s, FloatDiv(One, distinct_count(s)),
                         FloatSub(distinct_count(s), One), min(s), max(s))

CaseOpNotEquals(s, value) ==
    IF value < min(s) \/ value > max(s) THEN ConstantEstimate(s, One)
    ELSE DerivedEstimate(s, FloatDiv(FloatSub(distinct_count(s), One), distinct_count(s)),
                         FloatSub(distinct_count(s), One), min(s), max(s))

\* variant: the numerator of ">" is used for "<"
CaseOpLessThanMirrored(s, value) ==
    IF value <= min(s) THEN ConstantEstimate(s, Zero)
    ELSE RangedEstimate(s, FloatDiv(ToFloat(max(s) - value), RangeWidth(s)),
                        min(s), value - 1)

\* std::is_integral<ColumnType>::value holds: the case returns, it never falls through
CaseOpLessThan(s, value) ==
    IF value <= min(s) THEN ConstantEstimate(s, Zero)
    ELSE RangedEstimate(s, FloatDiv(ToFloat(value - min(s)), RangeWidth(s)),
                        min(s), value - 1)

CaseOpLessThanEquals(s, value) ==
    IF value < min(s) THEN ConstantEstimate(s, Zero)
    ELSE IF value >= max(s) THEN ConstantEstimate(s, One)
    ELSE RangedEstimate(s, FloatDiv(ToFloat(value - min(s) + 1), RangeWidth(s)),
                        min(s), value)

\* variant: the bound of the empty result is off by one (> instead of >=)
CaseOpGreaterThanOffByOne(s, value) ==
    IF value > max(s) THEN ConstantEstimate(s, Zero)
    ELSE RangedEstimate(s, FloatDiv(ToFloat(max(s) - value), RangeWidth(s)),
                        value + 1, max(s))

CaseOpGreaterThan(s, value) ==
    IF value >= max(s) THEN ConstantEstimate(s, Zero)
    ELSE RangedEstimate(s, FloatDiv(ToFloat(max(s) - value), RangeWidth(s)),
                        value + 1, max(s))

CaseOpGreaterThanEquals(s, value) ==
    IF value > max(s) THEN ConstantEstimate(s, Zero)
    ELSE IF value <= min(s) THEN ConstantEstimate(s, One)
    ELSE RangedEstimate(s, FloatDiv(ToFloat(max(s) - value + 1), RangeWidth(s)),
                        value, max(s))

\* variant: the two bounds are not clamped into [min, max]
CaseOpBetweenUnclamped(s, value, value2) ==
    IF value2 = <<>> THEN [container |-> NoContainer("thrown"), object |-> s]
    ELSE IF value > value2[1]
    THEN [container |-> Container(Zero, <<>>, <<>>), object |-> s]
    ELSE IF value > max(s) \/ value2[1] < min(s) THEN ConstantEstimate(s, Zero)
    ELSE RangedEstimate(s, FloatDiv(ToFloat(value2[1] - value + 1), RangeWidth(s)),
                        value, value2[1])

\* Fail(...) throws when value2 is missing; value > value2 returns before any
\* statistic is read
CaseOpBetween(s, value, value2) ==
    IF value2 = <<>> THEN [container |-> NoContainer("thrown"), object |-> s]
    ELSE IF value > value2[1]
    THEN [container |-> Container(Zero, <<>>, <<>>), object |-> s]
    ELSE IF value > max(s) \/ value2[1] < min(s) THEN ConstantEstimate(s, Zero)
    ELSE LET casted_value == std_max(value, min(s))
             casted_value2 == std_min(value2[1], max(s))
         IN  RangedEstimate(s, FloatDiv(ToFloat(casted_value2 - casted_value + 1), RangeWidth(s)),
                            casted_value, casted_value2)

\* predicate_selectivity(scan_type, value, value2) for an integral ColumnType:
\* the container it returns and the receiver after the call
predicate_selectivity_value(s, scan_type, value, value2) ==
    CASE scan_type = "OpEquals" -> CaseOpEquals(s, value)
      [] scan_type = "OpNotEquals" -> CaseOpNotEquals(s, value)
      [] scan_type = "OpLessThan" -> CaseOpLessThan(s, value)
      [] scan_type = "OpLessThanEquals" -> CaseOpLessThanEquals(s, value)
      [] scan_type = "OpGreaterThan" -> CaseOpGreaterThan(s, value)
      [] scan_type = "OpGreaterThanEquals" -> CaseOpGreaterThanEquals(s, value)
      [] scan_type = "OpBetween" -> CaseOpBetween(s, value, value2)
      [] OTHER -> [container |-> Container(One, <<>>, <<>>), object |-> s]

\* std::dynamic_pointer_cast<ColumnStatistics<ColumnType>>(argument): null
\* unless the argument is a ColumnStatistics of the receiver's column type
dynamic_pointer_cast(s, argument) == IF argument.type = s.type THEN <<argument>> ELSE <<>>

\* predicate_selectivity(scan_type, abstract_value_column_statistics, value2)
\* for an integral ColumnType, in a debug or a release build
predicate_selectivity_column(s, scan_type, argument, debug) ==
    LET value_column_statistics == dynamic_pointer_cast(s, argument)
    IN  IF DebugAssertFails(debug, value_column_statistics = <<>>)
        THEN [container |-> NoContainer("thrown"), object |-> s]
        ELSE IF value_column_statistics = <<>>
        THEN [container |-> NoContainer("crashed"), object |-> AfterMinMax(s)]
        ELSE LET other == value_column_statistics[1]
                 common_min == std_max(min(s), min(other))
                 common_max == std_min(max(s), max(other))
                 s1 == AfterMinMax(s)
                 s2 == AfterDistinctCount(s1)
                 overlap == ToFloat(common_max - common_min + 1)
                 overlapping_ratio_this == FloatDiv(overlap, ToFloat(max(s) - min(s) + 1))
                 overlapping_ratio_value ==
                     FloatDiv(overlap, ToFloat(max(other) - min(other) + 1))
                 overlapping_distinct_count_this ==
                     FloatMul(overlapping_ratio_this, distinct_count(s))
                 overlapping_distinct_count_value ==
                     FloatMul(overlapping_ratio_value, distinct_count(other))
                 overlapping_distinct_count ==
                     FloatMin(overlapping_distinct_count_this, overlapping_distinct_count_value)
                 probability_hit_value == FloatDiv(distinct_count(other), distinct_count(s))
             IN  IF scan_type = "OpEquals"
                 THEN IF common_min > common_max
                      THEN [container |-> Container(Zero, <<>>, <<>>), object |-> s1]
                      ELSE [container |->
                                Container(FloatMul(overlapping_distinct_count, probability_hit_value),
                                    <<ColumnStatisticsOfValues(s.type, s.column_id,
                                        overlapping_distinct_count, common_min, common_max)>>,
                                    <<ColumnStatisticsOfValues(other.type, other.column_id,
                                        overlapping_distinct_count, common_min, common_max)>>),
                            object |-> s2]
                 ELSE [container |-> Container(One, <<>>, <<>>), object |-> s1]

\* variant: the placeholder is treated as the constant 0
CasePlaceholderEqualsAsConstant(s) == CaseOpEquals(s, 0)

\* the cases of predicate_selectivity(scan_type, ValuePlaceholder, value2)
CasePlaceholderEquals(s) ==
    DerivedEstimate(s, FloatDiv(One, distinct_count(s)), One, min(s), max(s))

CasePlaceholderNotEquals(s) ==
    DerivedEstimate(s, FloatDiv(FloatSub(distinct_count(s), One), distinct_count(s)),
                    FloatSub(distinct_count(s), One), min(s), max(s))

\* predicate_selectivity(scan_type, ValuePlaceholder, value2)
predicate_selectivity_placeholder(s, scan_type) ==
    CASE scan_type = "OpEquals" -> CasePlaceholderEquals(s)
      [] scan_type = "OpNotEquals" -> CasePlaceholderNotEquals(s)
      [] OTHER -> [container |-> Container(One, <<>>, <<>>), object |-> s]

(***************************************************************************)
(* ColumnStatistics<std::string>.  A text value is modelled by its rank in *)
(* the lexicographic order, so that the comparisons of the code are the    *)
(* comparisons of integers; type_cast<std::string> of a text constant      *)
(* returns the constant.                                                   *)
(***************************************************************************)
CaseTextEquals(s, casted_value) ==
    IF casted_value < min(s) \/ casted_value > max(s) THEN ConstantEstimate(s, Zero)
    ELSE DerivedEstimate(s, FloatDiv(One, distinct_count(s)), One, casted_value, casted_value)

CaseTextNotEquals(s, casted_value) ==
    IF casted_value < min(s) \/ casted_value > max(s) THEN ConstantEstimate(s, One)
    ELSE DerivedEstimate(s, FloatSub(One, FloatDiv(One, distinct_count(s))),
                         FloatSub(distinct_count(s), One), min(s), max(s))

CaseTextDefault(s) == [container |-> Container(One, <<>>, <<>>), object |-> s]

\* ColumnStatistics<std::string>::predicate_selectivity(scan_type, value, value2)
predicate_selectivity_value_string(s, scan_type, value) ==
    CASE scan_type = "OpEquals" -> CaseTextEquals(s, value)
      [] scan_type = "OpNotEquals" -> CaseTextNotEquals(s, value)
      [] OTHER -> CaseTextDefault(s)

\* ColumnStatistics<std::string>::predicate_selectivity(scan_type,
\* abstract_value_column_statistics, value2): no cast, no assertion
predicate_selectivity_column_string(s, scan_type, argument) ==
    [container |-> Container(One, <<>>, <<>>), object |-> s]

(***************************************************************************)
(* State after construction.                                               *)
(***************************************************************************)
\* no statistics object, no call
IdleEstimator ==
    /\ statistics = <<>>
    /\ estimate = <<>>
    /\ accessed = <<>>
    /\ aggregates = <<>>
    /\ first_values = <<>>

\* no PausableLoopThread object
IdleLoop ==
    /\ loop_thread = "none"
    /\ isPaused = FALSE
    /\ shutdownFlag = FALSE
    /\ m = "free"
    /\ counter = 0
    /\ loop_sleep = 0
    /\ caller_pc = "none"
    /\ last_call = "none"
    /\ finish_call = "none"

ClusterCounts == 0..MaxClusterCount

NoJobs == <<>>

\* RadixClusterSort(left, right, column_names, equi_case, cluster_count):
\* the members are set, then the four DebugAsserts run
Constructed(left, right, equi, cc, debug) ==
    /\ input_table_left = left
    /\ input_table_right = right
    /\ equi_case = equi
    /\ cluster_count = cc
    /\ pc = IF DebugAssertFails(debug, ConstructorChecks(left, right, cc))
            THEN "Rejected" ELSE "Constructed"
    /\ chunks_left = <<>>
    /\ chunks_right = <<>>
    /\ output_left = <<>>
    /\ output_right = <<>>
    /\ side = "none"
    /\ output_table = <<>>
    /\ cluster_mutexes = <<>>
    /\ cluster_jobs = NoJobs
    /\ sample_values = <<>>
    /\ split_values = <<>>

\* the input tables of one side: a null pointer, or a table of up to the given rows
InputTables(rows) == IF rows = 0 THEN {NullTable} \cup TablesWithRows(0) ELSE TablesWithRows(rows)

Init ==
    \E rl \in 0..MaxRows :
      \E rr \in 0..(MaxRows - rl) :
        \E left \in InputTables(rl), right \in InputTables(rr),
           equi \in BOOLEAN, cc \in ClusterCounts, debug \in BOOLEAN :
            /\ Constructed(left, right, equi, cc, debug)
            /\ IdleEstimator
            /\ IdleLoop

(***************************************************************************)
(* execute(), up to the first _cluster call.                               *)
(***************************************************************************)
\* the start of _cluster(input_chunks, clusterer): the output clusters and
\* their mutexes are created, no job is scheduled yet
ClusterPrologue(which) ==
    /\ side' = which
    /\ output_table' = [c \in 1..cluster_count |-> <<>>]
    /\ cluster_mutexes' = [c \in 1..cluster_count |-> 0]
    /\ cluster_jobs' = NoJobs
    /\ pc' = "Scheduling"

\* execute(): the two materialize calls; a null table is dereferenced
Materialize ==
    /\ pc = "Constructed"
    /\ IF input_table_left = NullTable \/ input_table_right = NullTable
       THEN /\ pc' = "Crashed"
            /\ UNCHANGED <<chunks_left, chunks_right>>
       ELSE /\ pc' = "Materialized"
            /\ chunks_left' = materialize(input_table_left, ~equi_case)
            /\ chunks_right' = materialize(input_table_right, ~equi_case)
    /\ UNCHANGED <<estimator_vars, loop_vars, input_table_left, input_table_right, equi_case,
                   cluster_count,
                   output_left, output_right, side, output_table, cluster_mutexes,
                   cluster_jobs, sample_values, split_values>>

\* execute(), _cluster_count == 1
ConcatenateChunks ==
    /\ pc = "Materialized"
    /\ cluster_count = 1
    /\ output_left' = concatenate_chunks(chunks_left)
    /\ output_right' = concatenate_chunks(chunks_right)
    /\ pc' = "Clustered"
    /\ UNCHANGED <<estimator_vars, loop_vars, input_table_left, input_table_right, equi_case,
                   cluster_count,
                   chunks_left, chunks_right, side, output_table, cluster_mutexes,
                   cluster_jobs, sample_values, split_values>>

\* variant: the radix path is taken for every cluster count, 1 included
RadixClusterBeginAlways ==
    /\ pc = "Materialized"
    /\ equi_case
    /\ ClusterPrologue("left")
    /\ UNCHANGED <<estimator_vars, loop_vars, input_table_left, input_table_right, equi_case,
                   cluster_count,
                   chunks_left, chunks_right, output_left, output_right,
                   sample_values, split_values>>

\* execute(), _equi_case: _radix_cluster(chunks_left) enters _cluster
RadixClusterBegin ==
    /\ pc = "Materialized"
    /\ cluster_count # 1
    /\ equi_case
    /\ ClusterPrologue("left")
    /\ UNCHANGED <<estimator_vars, loop_vars, input_table_left, input_table_right, equi_case,
                   cluster_count,
                   chunks_left, chunks_right, output_left, output_right,
                   sample_values, split_values>>

\* what an out-of-range sample read of each chunk of a table may return; only
\* an empty chunk is read out of range, the entry of any other chunk is unused
Garbage(table) ==
    {g \in [1..Len(table) -> Values] :
        \A c \in 1..Len(table) : Len(table[c]) > 0 => g[c] = 0}

\* a chunk without records: every sample index is outside it
HasEmptyChunk(table) == \E c \in 1..Len(table) : Len(table[c]) = 0

\* execute(), otherwise: _range_cluster samples both inputs, picks the split
\* values and enters _cluster(input_left, clusterer).  With _cluster_count = 0
\* the vector of _cluster_count - 1 histograms cannot be allocated and the
\* constructor of std::vector throws.  Sampling an empty chunk reads outside
\* the chunk: the read returns garbage or the process crashes.
RangeClusterBegin ==
    /\ pc = "Materialized"
    /\ cluster_count # 1
    /\ ~equi_case
    /\ IF cluster_count = 0
       THEN /\ pc' = "Failed"
            /\ UNCHANGED <<side, output_table, cluster_mutexes, cluster_jobs,
                           sample_values, split_values>>
       ELSE \/ \E gl \in Garbage(chunks_left), gr \in Garbage(chunks_right) :
               LET empty == [i \in 1..(cluster_count - 1) |-> <<>>]
                   s1 == pick_sample_values(empty, chunks_left, 1, cluster_count, gl)
                   s2 == pick_sample_values(s1, chunks_right, 1, cluster_count, gr)
               IN  /\ sample_values' = s2
                   /\ split_values' = ComputeSplitValues(s2)
                   /\ ClusterPrologue("left")
            \/ /\ HasEmptyChunk(chunks_left) \/ HasEmptyChunk(chunks_right)
               /\ pc' = "Crashed"
               /\ UNCHANGED <<side, output_table, cluster_mutexes, cluster_jobs,
                              sample_values, split_values>>
    /\ UNCHANGED <<estimator_vars, loop_vars, input_table_left, input_table_right, equi_case,
                   cluster_count,
                   chunks_left, chunks_right, output_left, output_right>>

(***************************************************************************)
(* _cluster: the job loop, the jobs and the barrier.                       *)
(* A job is [state, pos]: pos is the position of the entry it works on.    *)
(***************************************************************************)
InputChunks == IF side = "left" THEN chunks_left ELSE chunks_right

JobIds == 1..Len(cluster_jobs)

Entry(t) == InputChunks[t][cluster_jobs[t].pos]

\* variant: the right input is clustered by another decision function
ClusterIdOfShifted(t) ==
    Clusterer(Entry(t).value + (IF side = "right" THEN 1 ELSE 0),
              equi_case, cluster_count, split_values)

\* auto cluster_id = clusterer(entry.value)
ClusterIdOf(t) == Clusterer(Entry(t).value, equi_case, cluster_count, split_values)

DriverUnchanged ==
    UNCHANGED <<estimator_vars, loop_vars, input_table_left, input_table_right, equi_case,
                   cluster_count,
                chunks_left, chunks_right, output_left, output_right, side,
                sample_values, split_values>>

\* one iteration of the loop over chunk_number: make the job, push it, schedule it
ScheduleJob ==
    /\ pc = "Scheduling"
    /\ Len(cluster_jobs) < Len(InputChunks)
    /\ cluster_jobs' = Append(cluster_jobs, [state |-> "scheduled", pos |-> 1])
    /\ UNCHANGED <<pc, output_table, cluster_mutexes>>
    /\ DriverUnchanged

\* a worker starts the job: the range-for over the chunk begins
JobStart(t) ==
    /\ pc = "Scheduling"
    /\ cluster_jobs[t].state = "scheduled"
    /\ cluster_jobs' = [cluster_jobs EXCEPT ![t].state =
                            IF Len(InputChunks[t]) = 0 THEN "done" ELSE "lock"]
    /\ UNCHANGED <<pc, output_table, cluster_mutexes>>
    /\ DriverUnchanged

\* variant: the job does not wait for the mutex to be free
JobLockNoWait(t) ==
    /\ pc = "Scheduling"
    /\ cluster_jobs[t].state = "lock"
    /\ InRange(ClusterIdOf(t), cluster_count)
    /\ cluster_mutexes' = [cluster_mutexes EXCEPT ![ClusterIdOf(t)[2] + 1] = t]
    /\ cluster_jobs' = [cluster_jobs EXCEPT ![t].state = "push"]
    /\ UNCHANGED <<pc, output_table>>
    /\ DriverUnchanged

\* cluster_mutexes[cluster_id].lock(); indexing outside the vector of mutexes
\* (only possible with _cluster_count = 0) brings the process down
JobLock(t) ==
    /\ pc = "Scheduling"
    /\ cluster_jobs[t].state = "lock"
    /\ IF InRange(ClusterIdOf(t), cluster_count)
       THEN /\ cluster_mutexes[ClusterIdOf(t)[2] + 1] = 0
            /\ cluster_mutexes' = [cluster_mutexes EXCEPT ![ClusterIdOf(t)[2] + 1] = t]
            /\ cluster_jobs' = [cluster_jobs EXCEPT ![t].state = "push"]
            /\ UNCHANGED pc
       ELSE /\ pc' = "Crashed"
            /\ UNCHANGED <<cluster_mutexes, cluster_jobs>>
    /\ UNCHANGED output_table
    /\ DriverUnchanged

\* variant: the entry replaces the cluster's content instead of being appended
JobPushBackOverwrite(t) ==
    /\ pc = "Scheduling"
    /\ cluster_jobs[t].state = "push"
    /\ output_table' = [output_table EXCEPT ![ClusterIdOf(t)[2] + 1] = <<Entry(t)>>]
    /\ cluster_jobs' = [cluster_jobs EXCEPT ![t].state = "unlock"]
    /\ UNCHANGED <<pc, cluster_mutexes>>
    /\ DriverUnchanged

\* (*output_table)[cluster_id]->push_back(entry)
JobPushBack(t) ==
    /\ pc = "Scheduling"
    /\ cluster_jobs[t].state = "push"
    /\ output_table' = [output_table EXCEPT ![ClusterIdOf(t)[2] + 1] = Append(@, Entry(t))]
    /\ cluster_jobs' = [cluster_jobs EXCEPT ![t].state = "unlock"]
    /\ UNCHANGED <<pc, cluster_mutexes>>
    /\ DriverUnchanged

\* cluster_mutexes[cluster_id].unlock(), then the next entry or the end of the job
JobUnlock(t) ==
    /\ pc = "Scheduling"
    /\ cluster_jobs[t].state = "unlock"
    /\ cluster_mutexes' = [cluster_mutexes EXCEPT ![ClusterIdOf(t)[2] + 1] = 0]
    /\ cluster_jobs' = [cluster_jobs EXCEPT ![t] =
                            IF @.pos < Len(InputChunks[t])
                            THEN [state |-> "lock", pos |-> @.pos + 1]
                            ELSE [state |-> "done", pos |-> @.pos]]
    /\ UNCHANGED <<pc, output_table>>
    /\ DriverUnchanged

\* push_back throws (std::bad_alloc): the exception leaves the job's function
\* between lock() and unlock(), so the mutex stays locked
JobPushBackThrows(t) ==
    /\ pc = "Scheduling"
    /\ cluster_jobs[t].state = "push"
    /\ cluster_jobs' = [cluster_jobs EXCEPT ![t].state = "failed"]
    /\ UNCHANGED <<pc, output_table, cluster_mutexes>>
    /\ DriverUnchanged

\* CurrentScheduler::wait_for_tasks(cluster_jobs) may return: every chunk has
\* its job and every job has completed
AllJobsDone ==
    /\ Len(cluster_jobs) = Len(InputChunks)
    /\ \A t \in JobIds : cluster_jobs[t].state = "done"

\* variant: the split values are picked again, from the right input alone,
\* before the right input is clustered
WaitForTasksLeftResplit ==
    /\ pc = "Scheduling"
    /\ side = "left"
    /\ AllJobsDone
    /\ output_left' = output_table
    /\ ClusterPrologue("right")
    /\ split_values' =
            IF equi_case THEN split_values
            ELSE ComputeSplitValues(
                     pick_sample_values([i \in 1..(cluster_count - 1) |-> <<>>], chunks_right,
                                        1, cluster_count, [c \in 1..Len(chunks_right) |-> 0]))
    /\ UNCHANGED <<estimator_vars, loop_vars, input_table_left, input_table_right, equi_case,
                   cluster_count,
                   chunks_left, chunks_right, output_right, sample_values>>

\* _cluster(left input) returns; the call for the right input begins.
\* (In _range_cluster the left result waits in the local output_left until
\* both calls are done; nothing reads it in between.)
WaitForTasksLeft ==
    /\ pc = "Scheduling"
    /\ side = "left"
    /\ AllJobsDone
    /\ output_left' = output_table
    /\ ClusterPrologue("right")
    /\ UNCHANGED <<estimator_vars, loop_vars, input_table_left, input_table_right, equi_case,
                   cluster_count,
                   chunks_left, chunks_right, output_right, sample_values, split_values>>

\* variant: _cluster returns without waiting for its jobs
WaitForTasksRightNoWait ==
    /\ pc = "Scheduling"
    /\ side = "right"
    /\ output_right' = output_table
    /\ pc' = "Clustered"
    /\ side' = "none"
    /\ output_table' = <<>>
    /\ cluster_mutexes' = <<>>
    /\ cluster_jobs' = NoJobs
    /\ UNCHANGED <<estimator_vars, loop_vars, input_table_left, input_table_right, equi_case,
                   cluster_count,
                   chunks_left, chunks_right, output_left, sample_values, split_values>>

\* _cluster(right input) returns; both outputs are in place
WaitForTasksRight ==
    /\ pc = "Scheduling"
    /\ side = "right"
    /\ AllJobsDone
    /\ output_right' = output_table
    /\ pc' = "Clustered"
    /\ side' = "none"
    /\ output_table' = <<>>
    /\ cluster_mutexes' = <<>>
    /\ cluster_jobs' = NoJobs
    /\ UNCHANGED <<estimator_vars, loop_vars, input_table_left, input_table_right, equi_case,
                   cluster_count,
                   chunks_left, chunks_right, output_left, sample_values, split_values>>

(***************************************************************************)
(* execute(): sort, final assertions, return.                              *)
(***************************************************************************)
\* _sort_clusters(_output_left); _sort_clusters(_output_right)
SortClusters ==
    /\ pc = "Clustered"
    /\ output_left' \in sort_clusters(output_left)
    /\ output_right' \in sort_clusters(output_right)
    /\ pc' = "Sorted"
    /\ UNCHANGED <<estimator_vars, loop_vars, input_table_left, input_table_right, equi_case,
                   cluster_count,
                   chunks_left, chunks_right, side, output_table, cluster_mutexes,
                   cluster_jobs, sample_values, split_values>>

\* the two size DebugAsserts, then return std::make_pair(_output_left, _output_right)
Deliver ==
    /\ pc = "Sorted"
    /\ \E debug \in BOOLEAN :
        pc' = IF \/ DebugAssertFails(debug, SumLen(output_left) = RowCountOf(input_table_left))
                 \/ DebugAssertFails(debug, SumLen(output_right) = RowCountOf(input_table_right))
              THEN "AssertFailed" ELSE "Delivered"
    /\ UNCHANGED <<estimator_vars, loop_vars, input_table_left, input_table_right, equi_case,
                   cluster_count,
                   chunks_left, chunks_right, output_left, output_right, side,
                   output_table, cluster_mutexes, cluster_jobs, sample_values, split_values>>

Next ==
    \/ Materialize
    \/ ConcatenateChunks
    \/ RadixClusterBegin
    \/ RangeClusterBegin
    \/ ScheduleJob
    \/ \E t \in JobIds : JobStart(t)
    \/ \E t \in JobIds : JobLock(t)
    \/ \E t \in JobIds : JobPushBack(t)
    \/ \E t \in JobIds : JobUnlock(t)
    \/ WaitForTasksLeft
    \/ WaitForTasksRight
    \/ SortClusters
    \/ Deliver

Spec == Init /\ [][Next]_vars

(***************************************************************************)
(* The operator under fair scheduling: the thread of execute() keeps       *)
(* running, and the scheduler runs every job it was given, so a statement  *)
(* of a job that stays possible is taken.  A job that waits for a mutex    *)
(* gets it once the mutex stays free.                                      *)
(***************************************************************************)
\* a statement of job t
JobStep(t) ==
    /\ t \in JobIds
    /\ (JobStart(t) \/ JobLock(t) \/ JobPushBack(t) \/ JobUnlock(t))

\* a statement of the thread that called execute()
DriverThreadStep ==
    \/ Materialize
    \/ ConcatenateChunks
    \/ RadixClusterBegin
    \/ RangeClusterBegin
    \/ ScheduleJob
    \/ WaitForTasksLeft
    \/ WaitForTasksRight
    \/ SortClusters
    \/ Deliver

FairScheduling ==
    /\ WF_vars(DriverThreadStep)
    /\ \A t \in 1..2 : WF_vars(JobStep(t))

SpecFair == Init /\ [][Next]_vars /\ FairScheduling

(***************************************************************************)
(* The stage with failing jobs: push_back may throw.                       *)
(***************************************************************************)
NextFault ==
    \/ Next
    \/ \E t \in JobIds : JobPushBackThrows(t)

SpecFault == Init /\ [][NextFault]_vars

(***************************************************************************)
(* A caller that keeps the instance: execute() is public and checks        *)
(* nothing about earlier calls, so it can be called again after it has     *)
(* returned.                                                               *)
(***************************************************************************)
\* a further call of execute() on the same instance: it starts with the two
\* materialize calls again; _output_left and _output_right still hold what the
\* earlier call returned
ExecuteAgain ==
    /\ pc = "Delivered"
    /\ pc' = "Materialized"
    /\ chunks_left' = materialize(input_table_left, ~equi_case)
    /\ chunks_right' = materialize(input_table_right, ~equi_case)
    /\ UNCHANGED <<estimator_vars, loop_vars, input_table_left, input_table_right, equi_case,
                   cluster_count,
                   output_left, output_right, side, output_table, cluster_mutexes,
                   cluster_jobs, sample_values, split_values>>

NextReuse ==
    \/ Next
    \/ ExecuteAgain

SpecReuse == Init /\ [][NextReuse]_vars

(***************************************************************************)
(* The statistics objects and the calls made on them.                      *)
(***************************************************************************)
StatValues == 0..MaxStatValue

\* the column of a bound table: one row or two
TableColumns == {<<v>> : v \in StatValues} \cup {<<v, w>> : v \in StatValues, w \in StatValues}

\* the statistics objects made from values with min <= max and distinct_count >= 1
ValueStatistics(type, column_id) ==
    UNION {{ColumnStatisticsOfValues(type, column_id, ToFloat(d), lo, hi) :
                d \in DistinctCounts, hi \in lo..MaxStatValue} : lo \in StatValues}

\* the statistics objects bound to a table, nothing computed yet
TableStatistics(type, column_id) ==
    {ColumnStatisticsOfTable(type, column_id, column) : column \in TableColumns}

\* the columns of the two-column example: A = (min 0, max 10, 11 distinct
\* values), B = (min 5, max 15, 11 distinct values); the column of the BETWEEN
\* example: (min 10, max 20, 11 distinct values), BETWEEN 12 AND 18
ExampleA == ColumnStatisticsOfValues("int32_t", 0, ToFloat(11), 0, 10)

ExampleB == ColumnStatisticsOfValues("int32_t", 1, ToFloat(11), 5, 15)

ExampleBetween == ColumnStatisticsOfValues("int32_t", 0, ToFloat(11), 10, 20)

\* statistics of a text column: one or three distinct values, one text or
\* a range of texts
TextStatistics(column_id) ==
    {ColumnStatisticsOfValues("string", column_id, ToFloat(d), 0, hi) :
        d \in {1, 3}, hi \in {0, MaxStatValue}}

\* the receivers: statistics of column 0 of type int32_t and of type string
Receivers ==
    ValueStatistics("int32_t", 0) \cup TableStatistics("int32_t", 0)
        \cup {ExampleA, ExampleBetween} \cup TextStatistics(0)

\* the arguments of a two-column call: statistics of column 1 of type
\* int32_t, one of type int64_t and one of type string
Arguments ==
    ValueStatistics("int32_t", 1)
        \cup {ExampleB, ColumnStatisticsOfValues("int64_t", 1, One, 0, 0),
              ColumnStatisticsOfValues("string", 1, One, 0, 0)}

\* the constants of a predicate: from two below the least min to two above the
\* greatest max, and the two constants of the BETWEEN example
ConstantValues == ((0 - 2)..(MaxStatValue + 2)) \cup {12, 18}

\* value2 is read by BETWEEN only
SecondValues(scan_type) ==
    IF scan_type = "OpBetween" THEN {<<>>} \cup {<<w>> : w \in ConstantValues} ELSE {<<>>}

\* the scan types of the two-column calls: the one with an estimate and two without
ColumnScanTypes == {"OpEquals", "OpLessThan", "OpLike"}

\* no call of predicate_selectivity, no call of an accessor and no execution
\* of an aggregate yet
NoCalls ==
    /\ estimate = [call |-> "none", scan_type |-> "OpLike", value |-> <<>>, value2 |-> <<>>,
                   argument |-> <<>>, container |-> NoContainer("none")]
    /\ accessed = [accessor |-> "none", outcome |-> "none", value |-> <<>>]
    /\ aggregates = [distinct_count |-> 0, min_max |-> 0]
    /\ first_values = [distinct_count |-> <<>>, min |-> <<>>, max |-> <<>>]

\* the executions of the aggregates after a call that took the object from s to s2
AggregatesAfter(s, s2) ==
    [distinct_count |-> aggregates.distinct_count
                            + (IF s.distinct_count = <<>> /\ s2.distinct_count # <<>>
                               THEN 1 ELSE 0),
     min_max |-> aggregates.min_max + (IF s.min = <<>> /\ s2.min # <<>> THEN 1 ELSE 0)]

\* a caller holds one of the receivers and has not called it yet
InitEstimator ==
    /\ Constructed(<<<<>>>>, <<<<>>>>, TRUE, 1, FALSE)
    /\ statistics \in Receivers
    /\ NoCalls
    /\ IdleLoop

\* the process is still there: no call has dereferenced a null pointer
EstimatorAlive ==
    /\ estimate.container.outcome # "crashed"
    /\ accessed.outcome # "crashed"

\* a call of predicate_selectivity(scan_type, value, value2)
PredicateSelectivityValue ==
    /\ EstimatorAlive
    /\ \E scan_type \in ScanTypes, value \in ConstantValues :
        \E value2 \in SecondValues(scan_type) :
            LET r == IF statistics.type = "string"
                     THEN predicate_selectivity_value_string(statistics, scan_type, value)
                     ELSE predicate_selectivity_value(statistics, scan_type, value, value2)
            IN  /\ statistics' = r.object
                /\ estimate' = [call |-> "value", scan_type |-> scan_type,
                                value |-> <<value>>, value2 |-> value2,
                                argument |-> <<>>, container |-> r.container]
                /\ aggregates' = AggregatesAfter(statistics, r.object)
    /\ UNCHANGED <<driver_vars, loop_vars, accessed, first_values>>

\* a call of predicate_selectivity(scan_type, value_column_statistics, value2)
PredicateSelectivityColumn ==
    /\ EstimatorAlive
    /\ \E scan_type \in ColumnScanTypes, argument \in Arguments, debug \in BOOLEAN :
        LET r == IF statistics.type = "string"
                 THEN predicate_selectivity_column_string(statistics, scan_type, argument)
                 ELSE predicate_selectivity_column(statistics, scan_type, argument, debug)
        IN  /\ statistics' = r.object
            /\ estimate' = [call |-> "column", scan_type |-> scan_type,
                            value |-> <<>>, value2 |-> <<>>,
                            argument |-> <<argument>>, container |-> r.container]
            /\ aggregates' = AggregatesAfter(statistics, r.object)
    /\ UNCHANGED <<driver_vars, loop_vars, accessed, first_values>>

\* a call of predicate_selectivity(scan_type, ValuePlaceholder, value2)
PredicateSelectivityPlaceholder ==
    /\ EstimatorAlive
    /\ \E scan_type \in ScanTypes :
        LET r == predicate_selectivity_placeholder(statistics, scan_type)
        IN  /\ statistics' = r.object
            /\ estimate' = [call |-> "placeholder", scan_type |-> scan_type,
                            value |-> <<>>, value2 |-> <<>>,
                            argument |-> <<>>, container |-> r.container]
            /\ aggregates' = AggregatesAfter(statistics, r.object)
    /\ UNCHANGED <<driver_vars, loop_vars, accessed, first_values>>

NextEstimator ==
    \/ PredicateSelectivityValue
    \/ PredicateSelectivityColumn
    \/ PredicateSelectivityPlaceholder

SpecEstimator == InitEstimator /\ [][NextEstimator]_vars

(***************************************************************************)
(* The accessors distinct_count(), min() and max() on their own: a caller  *)
(* holds one statistics object and calls the accessors in any order, while *)
(* the owner of the table changes its rows or drops it.  The object holds  *)
(* only a weak handle, so a dropped table makes _table.lock() return a     *)
(* null pointer, which update_distinct_count and update_min_max            *)
(* dereference unchecked (table->column_name): the call crashes.           *)
(***************************************************************************)
InitAccessors ==
    /\ Constructed(<<<<>>>>, <<<<>>>>, TRUE, 1, FALSE)
    /\ statistics \in ValueStatistics("int32_t", 0) \cup TableStatistics("int32_t", 0)
    /\ NoCalls
    /\ IdleLoop

\* the result of an accessor that found its value missing and no table; the
\* value of a result is the float <<n, d>> that distinct_count() returned or
\* the column value <<v>> that min() or max() returned
Crashed(accessor) == [accessor |-> accessor, outcome |-> "crashed", value |-> <<>>]

AccessorReturned(accessor, value) == [accessor |-> accessor, outcome |-> "returned", value |-> value]

\* the first value an accessor returned is remembered
FirstValues(accessor, value) ==
    IF first_values[accessor] = <<>>
    THEN [first_values EXCEPT ![accessor] = value]
    ELSE first_values

\* a call of distinct_count()
DistinctCountCall ==
    /\ EstimatorAlive
    /\ IF MissingDistinctCount(statistics) /\ statistics.table = <<>>
       THEN /\ accessed' = Crashed("distinct_count")
            /\ UNCHANGED <<statistics, aggregates, first_values>>
       ELSE LET s2 == AfterDistinctCount(statistics)
            IN  /\ statistics' = s2
                /\ accessed' = AccessorReturned("distinct_count", s2.distinct_count[1])
                /\ aggregates' = [aggregates EXCEPT !.distinct_count =
                                    @ + (IF MissingDistinctCount(statistics) THEN 1 ELSE 0)]
                /\ first_values' = FirstValues("distinct_count", s2.distinct_count[1])
    /\ UNCHANGED <<driver_vars, loop_vars, estimate>>

\* a call of min()
MinCall ==
    /\ EstimatorAlive
    /\ IF MissingMin(statistics) /\ statistics.table = <<>>
       THEN /\ accessed' = Crashed("min")
            /\ UNCHANGED <<statistics, aggregates, first_values>>
       ELSE LET s2 == IF MissingMin(statistics) THEN update_min_max(statistics) ELSE statistics
            IN  /\ statistics' = s2
                /\ accessed' = AccessorReturned("min", s2.min)
                /\ aggregates' = [aggregates EXCEPT !.min_max =
                                    @ + (IF MissingMin(statistics) THEN 1 ELSE 0)]
                /\ first_values' = FirstValues("min", s2.min)
    /\ UNCHANGED <<driver_vars, loop_vars, estimate>>

\* a call of max()
MaxCall ==
    /\ EstimatorAlive
    /\ IF MissingMax(statistics) /\ statistics.table = <<>>
       THEN /\ accessed' = Crashed("max")
            /\ UNCHANGED <<statistics, aggregates, first_values>>
       ELSE LET s2 == IF MissingMax(statistics) THEN update_min_max(statistics) ELSE statistics
            IN  /\ statistics' = s2
                /\ accessed' = AccessorReturned("max", s2.max)
                /\ aggregates' = [aggregates EXCEPT !.min_max =
                                    @ + (IF MissingMax(statistics) THEN 1 ELSE 0)]
                /\ first_values' = FirstValues("max", s2.max)
    /\ UNCHANGED <<driver_vars, loop_vars, estimate>>

\* the owner of the table replaces its rows
TableChanges ==
    /\ EstimatorAlive
    /\ statistics.table # <<>>
    /\ \E column \in TableColumns :
        /\ column # statistics.table[1]
        /\ statistics' = [statistics EXCEPT !.table = <<column>>]
    /\ UNCHANGED <<driver_vars, loop_vars, estimate, accessed, aggregates, first_values>>

\* the last owner of the table drops it: the weak handle expires
TableExpires ==
    /\ EstimatorAlive
    /\ statistics.table # <<>>
    /\ statistics' = [statistics EXCEPT !.table = <<>>]
    /\ UNCHANGED <<driver_vars, loop_vars, estimate, accessed, aggregates, first_values>>

NextAccessors ==
    \/ DistinctCountCall
    \/ MinCall
    \/ MaxCall
    \/ TableChanges
    \/ TableExpires

SpecAccessors == InitAccessors /\ [][NextAccessors]_vars

(***************************************************************************)
(* PausableLoopThread.  The loop thread takes one step per statement of    *)
(* the lambda of the constructor; the caller takes one step per statement  *)
(* of pause, resume and finish.  isPaused and shutdownFlag are atomic      *)
(* flags.  cv.wait(lk, pred) is while (!pred()) wait(lk): the predicate is *)
(* evaluated with m held, wait(lk) releases m and blocks in one step, and  *)
(* a woken thread takes m again before it evaluates the predicate.  The    *)
(* callers never take m, so a notify_one between the evaluation of the     *)
(* predicate and the blocking finds no waiting thread.                     *)
(***************************************************************************)
MaxCounter == 2

\* the values of loop_sleep: no sleep, or one millisecond
LoopSleeps == {0, 1}

\* the members as the class declares them: both flags are atomic and start
\* as false, the mutex is free
InitialMembers ==
    /\ isPaused = FALSE
    /\ shutdownFlag = FALSE
    /\ m = "free"

\* the constructor has started the thread; no call was made yet
InitLoop ==
    /\ Constructed(<<<<>>>>, <<<<>>>>, TRUE, 1, FALSE)
    /\ IdleEstimator
    /\ loop_thread = "line14"
    /\ InitialMembers
    /\ counter = 0
    /\ loop_sleep \in LoopSleeps
    /\ caller_pc = "idle"
    /\ last_call = "none"
    /\ finish_call = "none"

\* the loop thread moves to a line and leaves m alone
GoTo(line) ==
    /\ loop_thread' = line
    /\ UNCHANGED <<driver_vars, estimator_vars, isPaused, shutdownFlag, m, counter,
                   loop_sleep, caller_pc, last_call, finish_call>>

\* while (!shutdownFlag)
LoopCondition ==
    /\ loop_thread = "line14"
    /\ GoTo(IF shutdownFlag THEN "exited" ELSE "line15")

\* if (loop_sleep > std::chrono::milliseconds(0))
SleepCondition ==
    /\ loop_thread = "line15"
    /\ GoTo(IF loop_sleep > 0 THEN "line16" ELSE "line18")

\* std::this_thread::sleep_for(loop_sleep)
Sleep ==
    /\ loop_thread = "line16"
    /\ GoTo("line18")

\* if (shutdownFlag) return
ShutdownCheck ==
    /\ loop_thread = "line18"
    /\ GoTo(IF shutdownFlag THEN "exited" ELSE "line19")

\* while (isPaused)
PausedCondition ==
    /\ loop_thread = "line19"
    /\ GoTo(IF isPaused THEN "line20" ELSE "line25")

\* std::unique_lock<std::mutex> lk(m)
Lock ==
    /\ loop_thread = "line20"
    /\ m = "free"
    /\ m' = "loop_thread"
    /\ loop_thread' = "line21"
    /\ UNCHANGED <<driver_vars, estimator_vars, isPaused, shutdownFlag, counter,
                   loop_sleep, caller_pc, last_call, finish_call>>

\* cv.wait(lk, ...): the predicate !isPaused || shutdownFlag is evaluated
WaitPredicate ==
    /\ loop_thread = "line21"
    /\ GoTo(IF ~isPaused \/ shutdownFlag THEN "line22" ELSE "wait")

\* cv.wait(lk, ...): wait(lk) releases m and blocks
WaitBlock ==
    /\ loop_thread = "wait"
    /\ m' = "free"
    /\ loop_thread' = "blocked"
    /\ UNCHANGED <<driver_vars, estimator_vars, isPaused, shutdownFlag, counter,
                   loop_sleep, caller_pc, last_call, finish_call>>

\* cv.wait(lk, ...): a blocked thread may wake without a notification
SpuriousWakeup ==
    /\ loop_thread = "blocked"
    /\ GoTo("notified")

\* cv.wait(lk, ...): the woken thread takes m and evaluates the predicate again
WaitReacquire ==
    /\ loop_thread = "notified"
    /\ m = "free"
    /\ m' = "loop_thread"
    /\ loop_thread' = "line21"
    /\ UNCHANGED <<driver_vars, estimator_vars, isPaused, shutdownFlag, counter,
                   loop_sleep, caller_pc, last_call, finish_call>>

\* if (shutdownFlag) return: the destructor of lk releases m
ShutdownCheckAfterWait ==
    /\ loop_thread = "line22"
    /\ IF shutdownFlag
       THEN loop_thread' = "exited" /\ m' = "free"
       ELSE loop_thread' = "line23" /\ m' = m
    /\ UNCHANGED <<driver_vars, estimator_vars, isPaused, shutdownFlag, counter,
                   loop_sleep, caller_pc, last_call, finish_call>>

\* lk.unlock(), then while (isPaused) again
Unlock ==
    /\ loop_thread = "line23"
    /\ m' = "free"
    /\ loop_thread' = "line19"
    /\ UNCHANGED <<driver_vars, estimator_vars, isPaused, shutdownFlag, counter,
                   loop_sleep, caller_pc, last_call, finish_call>>

\* loop_func(counter++); counters above MaxCounter are not told apart
LoopFunc ==
    /\ loop_thread = "line25"
    /\ counter' = IF counter < MaxCounter THEN counter + 1 ELSE counter
    /\ loop_thread' = "line14"
    /\ UNCHANGED <<driver_vars, estimator_vars, isPaused, shutdownFlag, m,
                   loop_sleep, caller_pc, last_call, finish_call>>

\* cv.notify_one(): a thread blocked in wait(lk) is woken, no other is waiting
notify_one(thread) == IF thread = "blocked" THEN "notified" ELSE thread

\* pause(): isPaused = true
Pause ==
    /\ caller_pc = "idle"
    /\ isPaused' = TRUE
    /\ last_call' = "pause"
    /\ UNCHANGED <<driver_vars, estimator_vars, loop_thread, shutdownFlag, m, counter,
                   loop_sleep, caller_pc, finish_call>>

\* resume(): isPaused = false
ResumeStore ==
    /\ caller_pc = "idle"
    /\ isPaused' = FALSE
    /\ caller_pc' = "line34"
    /\ UNCHANGED <<driver_vars, estimator_vars, loop_thread, shutdownFlag, m, counter,
                   loop_sleep, last_call, finish_call>>

\* resume(): cv.notify_one(), and the call returns
ResumeNotify ==
    /\ caller_pc = "line34"
    /\ loop_thread' = notify_one(loop_thread)
    /\ caller_pc' = "idle"
    /\ last_call' = "resume"
    /\ UNCHANGED <<driver_vars, estimator_vars, isPaused, shutdownFlag, m, counter,
                   loop_sleep, finish_call>>

\* finish(): isPaused = true; finish is called once
FinishPause ==
    /\ caller_pc = "idle"
    /\ finish_call = "none"
    /\ isPaused' = TRUE
    /\ finish_call' = "called"
    /\ caller_pc' = "line39"
    /\ UNCHANGED <<driver_vars, estimator_vars, loop_thread, shutdownFlag, m, counter,
                   loop_sleep, last_call>>

\* finish(): shutdownFlag = true
FinishShutdown ==
    /\ caller_pc = "line39"
    /\ shutdownFlag' = TRUE
    /\ caller_pc' = "line40"
    /\ UNCHANGED <<driver_vars, estimator_vars, loop_thread, isPaused, m, counter,
                   loop_sleep, last_call, finish_call>>

\* finish(): cv.notify_one()
FinishNotify ==
    /\ caller_pc = "line40"
    /\ loop_thread' = notify_one(loop_thread)
    /\ caller_pc' = "line41"
    /\ UNCHANGED <<driver_vars, estimator_vars, isPaused, shutdownFlag, m, counter,
                   loop_sleep, last_call, finish_call>>

\* variant: finish() detaches the thread instead of joining it
FinishJoinDetached ==
    /\ caller_pc = "line41"
    /\ caller_pc' = "idle"
    /\ last_call' = "finish"
    /\ finish_call' = "returned"
    /\ UNCHANGED <<driver_vars, estimator_vars, loop_thread, isPaused, shutdownFlag, m,
                   counter, loop_sleep>>

\* finish(): loop_thread.join() returns once the thread has exited
FinishJoin ==
    /\ caller_pc = "line41"
    /\ loop_thread = "exited"
    /\ caller_pc' = "idle"
    /\ last_call' = "finish"
    /\ finish_call' = "returned"
    /\ UNCHANGED <<driver_vars, estimator_vars, loop_thread, isPaused, shutdownFlag, m,
                   counter, loop_sleep>>

LoopThreadStep ==
    \/ LoopCondition
    \/ SleepCondition
    \/ Sleep
    \/ ShutdownCheck
    \/ PausedCondition
    \/ Lock
    \/ WaitPredicate
    \/ WaitBlock
    \/ SpuriousWakeup
    \/ WaitReacquire
    \/ ShutdownCheckAfterWait
    \/ Unlock
    \/ LoopFunc

CallerStep ==
    \/ Pause
    \/ ResumeStore
    \/ ResumeNotify
    \/ FinishPause
    \/ FinishShutdown
    \/ FinishNotify
    \/ FinishJoin

NextLoop == LoopThreadStep \/ CallerStep

SpecLoop == InitLoop /\ [][NextLoop]_vars

(***************************************************************************)
(* PausableLoopThread under fair scheduling.  The loop thread is a thread  *)
(* of its own: a statement it can execute is executed; a thread blocked in *)
(* wait(lk) runs again when it is notified, a spurious wakeup is allowed   *)
(* but never promised.  A call that was begun runs to its end; whether and *)
(* when the caller begins a call is up to the caller.                      *)
(***************************************************************************)
\* the statements the loop thread executes by itself
LoopThreadRuns ==
    \/ LoopCondition
    \/ SleepCondition
    \/ Sleep
    \/ ShutdownCheck
    \/ PausedCondition
    \/ Lock
    \/ WaitPredicate
    \/ WaitBlock
    \/ WaitReacquire
    \/ ShutdownCheckAfterWait
    \/ Unlock
    \/ LoopFunc

\* the statements after the first of a call
CallContinues ==
    \/ ResumeNotify
    \/ FinishShutdown
    \/ FinishNotify
    \/ FinishJoin

FairThreads == WF_vars(LoopThreadRuns) /\ WF_vars(CallContinues)

SpecLoopFair == InitLoop /\ [][NextLoop]_vars /\ FairThreads

(***************************************************************************)
(* Properties.                                                             *)
(***************************************************************************)
Range(s) == {s[i] : i \in 1..Len(s)}

Count(s, r) == Cardinality({i \in 1..Len(s) : s[i] = r})

SameRecords(a, b) == \A r \in Range(a) \cup Range(b) : Count(a, r) = Count(b, r)

\* record r is the row of the table that its row_id names
FromSource(r, table) ==
    /\ r.row_id[1] + 1 \in 1..Len(table)
    /\ r.row_id[2] + 1 \in 1..Len(table[r.row_id[1] + 1])
    /\ r.value = table[r.row_id[1] + 1][r.row_id[2] + 1]

IsPowerOfTwo(n) == \E k \in 0..8 : n = 2^k

\* C1: row-count preservation.  When execute() returns, the sizes of the
\* output clusters of each side add up to the row count of that side's source
\* table, and the size assertions at the end of execute() never fail.
RowCountPreserved ==
    /\ pc # "AssertFailed"
    /\ pc = "Delivered" =>
        /\ SumLen(output_left) = RowCountOf(input_table_left)
        /\ SumLen(output_right) = RowCountOf(input_table_right)

RowCountWitness ==
    /\ pc = "Delivered"
    /\ cluster_count = 2
    /\ ~equi_case
    /\ Len(chunks_left) = 2
    /\ SumLen(output_left) = 3

\* C2: row-id preservation.  When execute() returns, the records in the output
\* clusters of each side are, as a multiset, the records that materialization
\* produced for that side, and each still carries the value of the source row
\* its row-id names.
RowIdPreserved ==
    pc = "Delivered" =>
        /\ SameRecords(Flatten(output_left), Flatten(chunks_left))
        /\ SameRecords(Flatten(output_right), Flatten(chunks_right))
        /\ \A r \in Range(Flatten(output_left)) : FromSource(r, input_table_left)
        /\ \A r \in Range(Flatten(output_right)) : FromSource(r, input_table_right)
        /\ SumLen(output_left) = RowCountOf(input_table_left)
        /\ SumLen(output_right) = RowCountOf(input_table_right)

RowIdWitness ==
    /\ pc = "Delivered"
    /\ equi_case
    /\ cluster_count = 2
    /\ Len(chunks_left) = 2
    /\ Len(output_left[1]) = 3
    /\ output_left[1][1].row_id[1] = 1
    /\ output_left[1][1].value < output_left[1][2].value

\* C3: range total order.  In range mode with more than one cluster, the
\* sorted output clusters of a side, concatenated in cluster-id order, are
\* non-decreasing by value.
RangeTotalOrder ==
    (pc = "Delivered" /\ ~equi_case /\ cluster_count > 1) =>
        /\ IsSortedByValue(Flatten(output_left))
        /\ IsSortedByValue(Flatten(output_right))

RangeTotalOrderWitness ==
    /\ pc = "Delivered"
    /\ ~equi_case
    /\ cluster_count = 4
    /\ Cardinality({c \in 1..4 : output_left[c] # <<>>}) >= 2
    /\ SumLen(output_right) >= 1

\* C4: radix colocation.  In radix mode with more than one cluster, a record
\* is in the cluster whose id is its value's unsigned 32-bit image masked with
\* cluster_count - 1, which for a power of two is the value modulo
\* cluster_count; records of a side with equal values share a cluster.
RadixColocation ==
    (pc = "Delivered" /\ equi_case /\ cluster_count > 1) =>
        \A out \in {output_left, output_right} :
            \A c \in 1..Len(out), d \in 1..Len(out) :
                \A i \in 1..Len(out[c]), j \in 1..Len(out[d]) :
                    /\ IsPowerOfTwo(cluster_count) => c - 1 = out[c][i].value % cluster_count
                    /\ out[c][i].value = out[d][j].value => c = d

RadixColocationWitness ==
    /\ pc = "Delivered"
    /\ equi_case
    /\ cluster_count = 4
    /\ \E i \in 1..Len(output_left[4]) : output_left[4][i].value = 0 - 1
    /\ \E i \in 1..Len(output_left[3]) : output_left[3][i].value = 2
    /\ output_right[1] # <<>>

\* C5: per-cluster sortedness.  When execute() returns, every output cluster
\* of both sides is non-decreasing by value.
PerClusterSorted ==
    pc = "Delivered" =>
        /\ \A c \in 1..Len(output_left) : IsSortedByValue(output_left[c])
        /\ \A c \in 1..Len(output_right) : IsSortedByValue(output_right[c])

PerClusterSortedWitness ==
    /\ pc = "Delivered"
    /\ equi_case
    /\ cluster_count = 2
    /\ input_table_left = <<<<2, 0>>>>
    /\ input_table_right = <<<<2>>>>

\* a valid configuration on inputs without empty chunks: no assertion of the
\* constructor is violated and no sample is read outside its chunk
CleanRun ==
    /\ ConstructorChecks(input_table_left, input_table_right, cluster_count)
    /\ ~HasEmptyChunk(input_table_left)
    /\ ~HasEmptyChunk(input_table_right)

\* the sampled value with the highest count of a histogram, the smaller value on ties
MostFrequentSample(hist) ==
    CHOOSE v \in DOMAIN hist :
        \A w \in DOMAIN hist : hist[w] < hist[v] \/ (hist[w] = hist[v] /\ v <= w)

\* C6: range split selection.  Every split value is the sampled value with the
\* highest count in its histogram, ties resolved to the smaller value.
SplitIsMostFrequentValue ==
    CleanRun =>
        \A i \in 1..Len(split_values) : split_values[i] = MostFrequentSample(sample_values[i])

\* C7: range cluster bounds.  The split values are strictly increasing;
\* cluster 0 holds only values <= s[0], cluster i only values with
\* s[i-1] < v <= s[i], and the last cluster only values > s[k-2].
RangeClusterBounds ==
    (pc \in {"Clustered", "Sorted", "Delivered"} /\ ~equi_case /\ cluster_count > 1 /\ CleanRun) =>
        /\ \A i \in 1..(Len(split_values) - 1) : split_values[i] < split_values[i + 1]
        /\ \A out \in {output_left, output_right} :
            \A c \in 1..Len(out) : \A k \in 1..Len(out[c]) :
                /\ c < cluster_count => out[c][k].value <= split_values[c]
                /\ c > 1 => out[c][k].value > split_values[c - 1]

\* every job that is between lock() and unlock() holds the mutex of the
\* cluster it appends to
AppenderHoldsMutex ==
    \A t \in JobIds :
        cluster_jobs[t].state \in {"push", "unlock"} =>
            cluster_mutexes[ClusterIdOf(t)[2] + 1] = t

\* while the jobs of one _cluster call run, the output clusters change only by
\* the append of a job that holds the cluster's mutex
OnlyHolderAppends ==
    (pc = "Scheduling" /\ pc' = "Scheduling" /\ side' = side /\ output_table' # output_table) =>
        \E t \in JobIds :
            /\ cluster_jobs[t].state = "push"
            /\ cluster_mutexes[ClusterIdOf(t)[2] + 1] = t
            /\ output_table' =
                 [output_table EXCEPT ![ClusterIdOf(t)[2] + 1] = Append(@, Entry(t))]

\* C8: per-cluster mutual exclusion.  No two jobs are appending to the same
\* cluster at the same time: a job between lock() and unlock() holds the
\* cluster's mutex, and the output clusters are changed by nothing but the
\* append of such a job while the jobs run.
PerClusterMutualExclusion == [](AppenderHoldsMutex) /\ [][OnlyHolderAppends]_vars

MutualExclusionWitness ==
    /\ pc = "Scheduling"
    /\ \E t \in JobIds, u \in JobIds :
        /\ t # u
        /\ cluster_jobs[t].state = "push"
        /\ cluster_jobs[u].state = "lock"
        /\ ClusterIdOf(t) = ClusterIdOf(u)

JobFailed == \E t \in JobIds : cluster_jobs[t].state = "failed"

JobRunning == \E t \in JobIds : cluster_jobs[t].state \notin {"done", "failed"}

\* C9: failure handling in the parallel stage.  Once a job has failed the
\* driver gets to the state Failed (it is never stuck anywhere else), and the
\* driver has neither failed nor returned while a job is still running.
JobFailureSurfaces ==
    /\ pc \in {"Failed", "Delivered", "AssertFailed"} => ~JobRunning
    /\ (JobFailed /\ CleanRun) => (pc = "Failed" \/ ENABLED NextFault)

\* C10: configuration validation.  No stage of execute() runs on an instance
\* whose cluster_count is 0 or not a power of two, or whose left or right
\* input table is null.
InvalidConfigurationNeverRuns ==
    pc \in {"Materialized", "Scheduling", "Clustered", "Sorted", "Delivered"} =>
        ConstructorChecks(input_table_left, input_table_right, cluster_count)

\* the steps of the driver's state machine; Scheduling is the part of the
\* clustering stage in which the jobs of a _cluster call run
StageSteps ==
    {<<"Constructed", "Materialized">>, <<"Materialized", "Scheduling">>,
     <<"Materialized", "Clustered">>, <<"Scheduling", "Clustered">>,
     <<"Clustered", "Sorted">>, <<"Sorted", "Delivered">>}

\* the states in which a run ends without a result
FailureStates == {"Rejected", "Crashed", "Failed", "AssertFailed"}

DriverStep ==
    /\ pc' # pc => (<<pc, pc'>> \in StageSteps \/ (pc # "Delivered" /\ pc' \in FailureStates))
    /\ pc = "Delivered" =>
        /\ pc' = "Delivered"
        /\ output_left' = output_left
        /\ output_right' = output_right

\* C11: the driver is single-shot.  The driver moves through Constructed,
\* Materialized, Clustered, Sorted, Delivered in this order and Delivered is
\* terminal: after execute() has returned, no call on the instance runs a
\* stage again or replaces the delivered output clusters.
SingleShotDriver == [][DriverStep]_vars

\* C12: the degenerate case cluster_count = 1.  No clustering job is created
\* and nothing is sampled; the output of each side is one chunk holding the
\* records of all input chunks of the side in chunk order, and that chunk is
\* sorted by value when execute() returns.
DegenerateSingleCluster ==
    cluster_count = 1 =>
        /\ pc # "Scheduling"
        /\ cluster_jobs = NoJobs
        /\ output_table = <<>>
        /\ sample_values = <<>>
        /\ split_values = <<>>
        /\ pc = "Clustered" =>
            /\ output_left = <<Flatten(chunks_left)>>
            /\ output_right = <<Flatten(chunks_right)>>
        /\ pc \in {"Sorted", "Delivered"} =>
            /\ Len(output_left) = 1
            /\ Len(output_right) = 1
            /\ SameRecords(output_left[1], Flatten(chunks_left))
            /\ SameRecords(output_right[1], Flatten(chunks_right))
            /\ Len(output_left[1]) = RowCountOf(input_table_left)
            /\ Len(output_right[1]) = RowCountOf(input_table_right)
            /\ IsSortedByValue(output_left[1])
            /\ IsSortedByValue(output_right[1])

DegenerateSingleClusterWitness ==
    /\ pc = "Delivered"
    /\ cluster_count = 1
    /\ equi_case
    /\ Len(chunks_left) = 2
    /\ Len(output_left[1]) = 2
    /\ output_left[1][1].row_id[1] = 1
    /\ output_left[1][1].value < output_left[1][2].value
    /\ Len(output_right[1]) = 1

(***************************************************************************)
(* Properties of the selectivity estimator.  lo, hi and d are what min(),  *)
(* max() and distinct_count() of the receiver return; they are the same    *)
(* before and after a call.                                                *)
(***************************************************************************)
\* x = n / k for a float x and integers n, k with k > 0
IsQuotient(x, n, k) == x[1] * k = n * x[2]

InUnitInterval(x) == ~FloatLess(x, Zero) /\ ~FloatLess(One, x)

\* the last call was predicate_selectivity(scan_type, value, value2) on an
\* integer column, with value2 present if the scan type is BETWEEN
ValueCall(scan_type) ==
    /\ estimate.call = "value"
    /\ statistics.type = "int32_t"
    /\ estimate.scan_type = scan_type
    /\ scan_type = "OpBetween" => estimate.value2 # <<>>

\* the last call was the two-column call with statistics of the same column type
ColumnCall(scan_type) ==
    /\ estimate.call = "column"
    /\ statistics.type = "int32_t"
    /\ estimate.scan_type = scan_type
    /\ estimate.argument[1].type = statistics.type

Returned == estimate.container.outcome = "returned"

NoDerivedStatistics ==
    /\ estimate.container.column_statistics = <<>>
    /\ estimate.container.value_column_statistics = <<>>

\* the last call returned derived statistics (dn / dm, dmin, dmax) for column_id
DerivedIs(derived, column_id, dn, dm, dmin, dmax) ==
    /\ Len(derived) = 1
    /\ derived[1].column_id = column_id
    /\ derived[1].table = <<>>
    /\ IsQuotient(derived[1].distinct_count[1], dn, dm)
    /\ derived[1].min = <<dmin>>
    /\ derived[1].max = <<dmax>>

\* C13: selectivity bounds of constant predicates.  For an integer column
\* with min <= max and distinct_count >= 1, the selectivity returned for any
\* scan type and any constants lies in [0, 1].
SelectivityInUnitInterval ==
    (estimate.call = "value" /\ statistics.type = "int32_t" /\ Returned) =>
        InUnitInterval(estimate.container.selectivity)

\* C14: the two-column equality is clamped.  For two integer column
\* statistics with overlapping ranges and distinct counts >= 1, the selectivity
\* returned for A = B is at least 0 and at most 1.
TwoColumnEqualityClamped ==
    (ColumnCall("OpEquals") /\ Returned) => InUnitInterval(estimate.container.selectivity)

\* the constant predicate of the last call holds for no value in [lo, hi]
Unsatisfiable(scan_type, v, w, lo, hi) ==
    CASE scan_type = "OpEquals" -> v < lo \/ v > hi
      [] scan_type = "OpLessThan" -> v <= lo
      [] scan_type = "OpLessThanEquals" -> v < lo
      [] scan_type = "OpGreaterThan" -> v >= hi
      [] scan_type = "OpGreaterThanEquals" -> v > hi
      [] scan_type = "OpBetween" -> v > w[1] \/ v > hi \/ w[1] < lo
      [] OTHER -> FALSE

\* C15: unsatisfiable implies zero.  A constant predicate that no value in
\* [min, max] satisfies gets selectivity exactly 0 and no derived statistics.
UnsatisfiableIsZero ==
    \A scan_type \in ScanTypes :
        (/\ ValueCall(scan_type)
         /\ Unsatisfiable(scan_type, estimate.value[1], estimate.value2,
                          min(statistics), max(statistics))) =>
            /\ Returned
            /\ estimate.container.selectivity = Zero
            /\ NoDerivedStatistics

UnsatisfiableIsZeroWitness ==
    /\ ValueCall("OpBetween")
    /\ statistics.table # <<>>
    /\ min(statistics) < max(statistics)
    /\ estimate.value[1] <= estimate.value2[1]
    /\ estimate.value[1] > max(statistics)
    /\ estimate.container.selectivity = Zero

\* the constant predicate of the last call holds for every value in [lo, hi]
AlwaysSatisfied(scan_type, v, w, lo, hi) ==
    CASE scan_type = "OpNotEquals" -> v < lo \/ v > hi
      [] scan_type = "OpLessThan" -> v > hi
      [] scan_type = "OpLessThanEquals" -> v >= hi
      [] scan_type = "OpGreaterThan" -> v < lo
      [] scan_type = "OpGreaterThanEquals" -> v <= lo
      [] scan_type = "OpBetween" -> v <= lo /\ w[1] >= hi
      [] OTHER -> FALSE

\* C16: always satisfied implies one.  A constant predicate that every value
\* in [min, max] satisfies gets selectivity exactly 1 and no derived statistics.
AlwaysSatisfiedIsOne ==
    \A scan_type \in ScanTypes :
        (/\ ValueCall(scan_type)
         /\ AlwaysSatisfied(scan_type, estimate.value[1], estimate.value2,
                            min(statistics), max(statistics))) =>
            /\ Returned
            /\ estimate.container.selectivity = One
            /\ NoDerivedStatistics

\* two calls in a row of (col < v) and (col < v') on the same statistics
LessThanStep ==
    (/\ ValueCall("OpLessThan")
     /\ estimate'.call = "value"
     /\ estimate'.scan_type = "OpLessThan"
     /\ estimate.value[1] <= estimate'.value[1]) =>
        /\ min(statistics') = min(statistics)
        /\ max(statistics') = max(statistics)
        /\ distinct_count(statistics') = distinct_count(statistics)
        /\ ~FloatLess(estimate'.container.selectivity, estimate.container.selectivity)

\* C17: selectivity monotonicity.  On an integer column with fixed min, max
\* and distinct count, v1 <= v2 implies that the selectivity returned for
\* (col < v1) is at most the selectivity returned for (col < v2).
LessThanMonotone == [][LessThanStep]_vars

LessThanMonotoneWitness ==
    /\ ValueCall("OpLessThan")
    /\ statistics.table # <<>>
    /\ statistics.min # <<>>
    /\ FloatLess(Zero, estimate.container.selectivity)
    /\ FloatLess(estimate.container.selectivity, One)

\* C18: the formulas of = and !=.  For min <= v <= max, (= v) returns 1/d
\* with derived statistics (1, v, v) and (!= v) returns (d-1)/d with derived
\* statistics (d-1, min, max); for v outside [min, max], (!= v) returns 1 and
\* no derived statistics.
EqualityFormulas ==
    LET v == estimate.value[1]
        lo == min(statistics)
        hi == max(statistics)
        d == distinct_count(statistics)
    IN  /\ (ValueCall("OpEquals") /\ lo <= v /\ v <= hi) =>
            /\ Returned
            /\ IsQuotient(estimate.container.selectivity, d[2], d[1])
            /\ DerivedIs(estimate.container.column_statistics,
                         statistics.column_id, 1, 1, v, v)
            /\ estimate.container.value_column_statistics = <<>>
        /\ (ValueCall("OpNotEquals") /\ lo <= v /\ v <= hi) =>
            /\ Returned
            /\ IsQuotient(estimate.container.selectivity, d[1] - d[2], d[1])
            /\ DerivedIs(estimate.container.column_statistics,
                         statistics.column_id, d[1] - d[2], d[2], lo, hi)
            /\ estimate.container.value_column_statistics = <<>>
        /\ (ValueCall("OpNotEquals") /\ (v < lo \/ v > hi)) =>
            /\ Returned
            /\ estimate.container.selectivity = One
            /\ NoDerivedStatistics

EqualityFormulasWitness ==
    /\ ValueCall("OpNotEquals")
    /\ min(statistics) < estimate.value[1]
    /\ estimate.value[1] < max(statistics)
    /\ estimate.container.selectivity = <<2, 3>>

\* C19: the formula of BETWEEN.  For v <= v2 with [v, v2] intersecting
\* [min, max], v is raised to min and v2 lowered to max, the selectivity is
\* (v2 - v + 1) / (max - min + 1) and the derived statistics are
\* (selectivity * d, v, v2), both with the clamped bounds; on (min 10, max 20)
\* BETWEEN 12 AND 18 returns 7/11 and derived min and max 12 and 18.
BetweenFormula ==
    LET v == estimate.value[1]
        v2 == estimate.value2[1]
        lo == min(statistics)
        hi == max(statistics)
        d == distinct_count(statistics)
        cv == IF v < lo THEN lo ELSE v
        cv2 == IF v2 > hi THEN hi ELSE v2
    IN  /\ (ValueCall("OpBetween") /\ v <= v2 /\ v <= hi /\ v2 >= lo) =>
            /\ Returned
            /\ IsQuotient(estimate.container.selectivity, cv2 - cv + 1, hi - lo + 1)
            /\ DerivedIs(estimate.container.column_statistics, statistics.column_id,
                         (cv2 - cv + 1) * d[1], (hi - lo + 1) * d[2], cv, cv2)
            /\ estimate.container.value_column_statistics = <<>>
        /\ (ValueCall("OpBetween") /\ statistics = ExampleBetween /\ v = 12 /\ v2 = 18) =>
            /\ estimate.container.selectivity = <<7, 11>>
            /\ estimate.container.column_statistics[1].min = <<12>>
            /\ estimate.container.column_statistics[1].max = <<18>>

BetweenFormulaWitness ==
    /\ ValueCall("OpBetween")
    /\ estimate.value[1] < min(statistics)
    /\ estimate.value2[1] > max(statistics)
    /\ min(statistics) < max(statistics)
    /\ Returned
    /\ estimate.container.column_statistics # <<>>

\* C20: the two-column equality estimate.  With common_lo = max(A.min, B.min)
\* and common_hi = min(A.max, B.max): if common_lo > common_hi the call returns
\* (0, none, none); otherwise both derived statistics are (overlap_distinct,
\* common_lo, common_hi), overlap_distinct being the smaller of
\* ((common_hi - common_lo + 1) / (X.max - X.min + 1)) * X.d over the two
\* sides, and each derived statistics object keeps the column id of its side.
TwoColumnEqualityEstimate ==
    ColumnCall("OpEquals") =>
        LET A == statistics
            B == estimate.argument[1]
            common_lo == IF min(A) < min(B) THEN min(B) ELSE min(A)
            common_hi == IF max(A) < max(B) THEN max(A) ELSE max(B)
            overlap == common_hi - common_lo + 1
            \* overlap_X = an / am for A and bn / bm for B
            an == overlap * distinct_count(A)[1]
            am == (max(A) - min(A) + 1) * distinct_count(A)[2]
            bn == overlap * distinct_count(B)[1]
            bm == (max(B) - min(B) + 1) * distinct_count(B)[2]
            dn == IF an * bm <= bn * am THEN an ELSE bn
            dm == IF an * bm <= bn * am THEN am ELSE bm
        IN  /\ Returned
            /\ common_lo > common_hi =>
                /\ estimate.container.selectivity = Zero
                /\ NoDerivedStatistics
            /\ common_lo <= common_hi =>
                /\ DerivedIs(estimate.container.column_statistics,
                             A.column_id, dn, dm, common_lo, common_hi)
                /\ DerivedIs(estimate.container.value_column_statistics,
                             B.column_id, dn, dm, common_lo, common_hi)

\* C21: type mismatch in a two-column predicate.  The cast of the argument to
\* the receiver's column type must succeed: with statistics of another column
\* type the call fails with a type error, with statistics of the same column
\* type the call does not fail.
TypeMismatchIsTypeError ==
    estimate.call = "column" =>
        /\ estimate.argument[1].type # statistics.type =>
                estimate.container.outcome = "thrown"
        /\ estimate.argument[1].type = statistics.type =>
                estimate.container.outcome = "returned"

\* the three values are held by the object: no accessor needs the table
AllCached(s) == ~MissingDistinctCount(s) /\ ~MissingMin(s) /\ ~MissingMax(s)

ComputedOnce ==
    /\ aggregates.distinct_count <= 1
    /\ aggregates.min_max <= 1
    /\ MissingMin(statistics) <=> MissingMax(statistics)
    /\ aggregates.min_max = 1 => ~MissingMin(statistics)
    /\ accessed.outcome = "returned" => accessed.value = first_values[accessed.accessor]

CachedStep ==
    AllCached(statistics) =>
        /\ aggregates' = aggregates
        /\ accessed'.outcome # "crashed"
        /\ AllCached(statistics')

\* C22: lazy statistics are computed once and frozen.  Each aggregate runs at
\* most once per object, the first min() or max() fills both bounds, every
\* later call of an accessor returns the value of its first call even if
\* the table changed in between, and an object that holds all three values
\* (such as one built from literals) never runs an aggregate on a table.
LazyStatisticsFrozen == [](ComputedOnce) /\ [][CachedStep]_vars

\* an accessor returned its cached first value although the table now holds
\* other rows that would give another value
LazyStatisticsFrozenWitness ==
    /\ accessed.outcome = "returned"
    /\ accessed.accessor = "distinct_count"
    /\ aggregates.distinct_count = 1
    /\ statistics.table # <<>>
    /\ accessed.value # update_distinct_count(statistics).distinct_count[1]

\* the value the accessor of this name reads is missing in the object
MissingFor(accessor, s) ==
    CASE accessor = "distinct_count" -> MissingDistinctCount(s)
      [] accessor = "min" -> MissingMin(s)
      [] accessor = "max" -> MissingMax(s)
      [] OTHER -> FALSE

CachedFor(accessor, s) ==
    CASE accessor = "distinct_count" -> s.distinct_count[1]
      [] accessor = "min" -> s.min
      [] accessor = "max" -> s.max
      [] OTHER -> <<>>

ExpiredTableStep ==
    accessed' # accessed /\ statistics.table = <<>> =>
        IF MissingFor(accessed'.accessor, statistics)
        THEN /\ accessed'.outcome = "thrown"
             /\ statistics' = statistics
        ELSE /\ accessed'.outcome = "returned"
             /\ accessed'.value = CachedFor(accessed'.accessor, statistics)

\* C23: expired table handle.  A request for a statistic that is not cached
\* yet, made when the source table no longer exists, fails with a
\* configuration error and leaves the cached fields as they were; a request
\* for a cached statistic still returns it.
ExpiredTableIsConfigurationError == [][ExpiredTableStep]_vars

\* the last call was predicate_selectivity(scan_type, placeholder)
PlaceholderCall == estimate.call = "placeholder"

\* C24: placeholder predicates.  predicate_selectivity(scan_type, placeholder)
\* returns selectivity 1/d for =, (d-1)/d for !=, and exactly 1 with no
\* derived statistics for every other scan type, whatever the column's min
\* and max are.
PlaceholderFormulas ==
    LET d == distinct_count(statistics)
    IN  PlaceholderCall =>
            /\ Returned
            /\ estimate.scan_type = "OpEquals" =>
                    IsQuotient(estimate.container.selectivity, d[2], d[1])
            /\ estimate.scan_type = "OpNotEquals" =>
                    IsQuotient(estimate.container.selectivity, d[1] - d[2], d[1])
            /\ estimate.scan_type \notin {"OpEquals", "OpNotEquals"} =>
                    /\ estimate.container.selectivity = One
                    /\ NoDerivedStatistics

\* a placeholder compared for equality with a column whose values all lie
\* above 0: the estimate is 1/3, the column's range plays no part
PlaceholderFormulasWitness ==
    /\ PlaceholderCall
    /\ estimate.scan_type = "OpEquals"
    /\ statistics.min # <<>>
    /\ min(statistics) > 0
    /\ estimate.container.selectivity = <<1, 3>>

\* the last call returned selectivity exactly 1 and no derived statistics
DefaultEstimate ==
    /\ Returned
    /\ estimate.container.selectivity = One
    /\ NoDerivedStatistics

\* C25: unestimated predicates default to (1, none).  Any scan type other
\* than = and != on a text column, any two-column predicate on a text column
\* and any two-column predicate other than = on integer columns of the same
\* type returns selectivity exactly 1 and no derived statistics, and never an
\* error.
UnestimatedIsDefault ==
    /\ (/\ estimate.call = "value"
        /\ statistics.type = "string"
        /\ estimate.scan_type \notin {"OpEquals", "OpNotEquals"}) => DefaultEstimate
    /\ (estimate.call = "column" /\ statistics.type = "string") => DefaultEstimate
    /\ (\E scan_type \in ColumnScanTypes \ {"OpEquals"} : ColumnCall(scan_type)) =>
            DefaultEstimate

(***************************************************************************)
(* Properties of PausableLoopThread.                                       *)
(***************************************************************************)
\* what the loop thread is and sees: its line, the flags, the mutex, the counter
LoopState == <<loop_thread, isPaused, shutdownFlag, m, counter>>

\* this step is a statement of resume()
ResumeStatement ==
    \/ caller_pc = "idle" /\ caller_pc' = "line34"
    \/ caller_pc = "line34" /\ caller_pc' = "idle"

\* a resume() that follows a resume(), or that no pause() preceded, changes nothing
RepeatedResumeStep ==
    (ResumeStatement /\ last_call \in {"resume", "none"}) => LoopState' = LoopState

ResumedState ==
    (last_call = "resume" /\ caller_pc = "idle" /\ finish_call = "none") =>
        ~isPaused /\ ~shutdownFlag

\* C26: resume is idempotent.  After pause(), two or more calls of resume() in
\* a row leave the loop not paused and not shut down and behaving as after one
\* call: the second and later calls change nothing of the loop; a resume()
\* without a preceding pause() changes nothing either.
ResumeIdempotent == [](ResumedState) /\ [][RepeatedResumeStep]_vars

FinishedState == finish_call = "returned" => loop_thread = "exited"

FinishedStep == finish_call = "returned" => (loop_thread' = loop_thread /\ counter' = counter)

\* C27: finish is terminal.  Once finish() has returned, the loop thread has
\* exited and loop_func is never invoked again, whatever calls of pause() and
\* resume() follow.
FinishTerminal == [](FinishedState) /\ [][FinishedStep]_vars

\* loop_func ran, finish() returned, and a resume() was made afterwards
FinishTerminalWitness ==
    /\ finish_call = "returned"
    /\ counter > 0
    /\ last_call = "resume"
    /\ caller_pc = "idle"
    /\ ~isPaused

(***************************************************************************)
(* Properties of the clustering stage as a whole.                          *)
(***************************************************************************)
\* execute() is past the clustering stage: sorting, or returning
AfterClustering == pc \in {"Clustered", "Sorted", "Delivered", "AssertFailed"}

\* this step is the return of a _cluster call
ClusterReturns == pc = "Scheduling" /\ (pc' = "Clustered" \/ side' # side)

BarrierStep ==
    ClusterReturns =>
        /\ Len(cluster_jobs) = Len(InputChunks)
        /\ \A t \in 1..Len(cluster_jobs) : cluster_jobs[t].state = "done"
        /\ SumLen(output_table) = SumLen(InputChunks)

BarrierState ==
    /\ pc = "Scheduling" => Len(cluster_jobs) <= Len(InputChunks)
    /\ (pc = "Scheduling" /\ side = "right") => SumLen(output_left) = SumLen(chunks_left)
    /\ AfterClustering =>
        /\ cluster_jobs = NoJobs
        /\ SumLen(output_left) = SumLen(chunks_left)
        /\ SumLen(output_right) = SumLen(chunks_right)

\* C28: barrier before sort.  _cluster schedules exactly one task per input
\* chunk and returns only after all of them have completed; so while
\* execute() sorts the clusters or returns the result, no clustering task
\* runs and no record is still to be appended.
BarrierBeforeSort == [](BarrierState) /\ [][BarrierStep]_vars

\* the clusters are being sorted after two tasks per side appended all records
BarrierBeforeSortWitness ==
    /\ pc = "Sorted"
    /\ cluster_count = 2
    /\ Len(chunks_left) = 2
    /\ Len(chunks_right) = 2
    /\ SumLen(output_left) = 2
    /\ SumLen(output_right) = 1

\* a clustering task of either side may have been scheduled, or the stage is over
ClusteringBegun == pc = "Scheduling" \/ AfterClustering

SplitValuesWritten ==
    (ClusteringBegun /\ ~equi_case /\ cluster_count > 1) =>
        Len(split_values) = cluster_count - 1

SplitValuesStep == ClusteringBegun => split_values' = split_values

\* C29: the split vector is frozen before partitioning.  In range mode every
\* entry of split_values is written before the first clustering task of
\* either side is scheduled and none is written afterwards: the tasks of both
\* sides read the same unchanged vector.
SplitValuesFrozen == [](SplitValuesWritten) /\ [][SplitValuesStep]_vars

\* a task of the right input is about to append a record under three split values
SplitValuesFrozenWitness ==
    /\ pc = "Scheduling"
    /\ side = "right"
    /\ ~equi_case
    /\ cluster_count = 4
    /\ Len(split_values) = 3
    /\ \E t \in 1..Len(cluster_jobs) : cluster_jobs[t].state = "push"

\* C30: cross-side colocation.  In radix mode and in range mode both inputs
\* are partitioned by the same decision function, so a record of the left
\* input and a record of the right input with equal values are in clusters
\* with the same cluster id.
CrossSideColocation ==
    (AfterClustering /\ cluster_count > 1) =>
        \A c \in 1..Len(output_left), d \in 1..Len(output_right) :
            \A i \in 1..Len(output_left[c]), j \in 1..Len(output_right[d]) :
                output_left[c][i].value = output_right[d][j].value => c = d

\* range mode: equal values of both sides in a cluster other than the first,
\* another record in the first cluster
CrossSideColocationWitness ==
    /\ pc = "Delivered"
    /\ ~equi_case
    /\ \E c \in 2..cluster_count :
        \E i \in 1..Len(output_left[c]), j \in 1..Len(output_right[c]) :
            output_left[c][i].value = output_right[c][j].value
    /\ output_left[1] # <<>> \/ output_right[1] # <<>>
\* both inputs are tables and _range_cluster has sampled them
Sampled ==
    /\ input_table_left # NullTable
    /\ input_table_right # NullTable
    /\ ~equi_case
    /\ cluster_count > 1
    /\ pc \notin {"Rejected", "Constructed", "Materialized"}

\* every sampled position of every chunk of the table is an index of the chunk
SamplesInside(table) ==
    \A c \in 1..Len(table) :
        \A i \in 1..(cluster_count - 1) :
            SampleIndex(Len(table[c]), i - 1, cluster_count) < Len(table[c])

RECURSIVE HistogramTotal(_)
\* the sum of the counts of a histogram
HistogramTotal(hist) ==
    IF DOMAIN hist = {} THEN 0
    ELSE LET v == CHOOSE w \in DOMAIN hist : TRUE
         IN  hist[v] + HistogramTotal([w \in DOMAIN hist \ {v} |-> hist[w]])

\* C31: sampling stays inside the chunk.  For every materialized chunk of
\* either input, a chunk without records included, and every i in
\* 1..cluster_count-1, the sampled position floor(chunk_size * i /
\* cluster_count) is an index of the chunk, the sampling does not bring the
\* operator down, and each histogram is incremented once per chunk.
SamplingInsideChunk ==
    Sampled =>
        /\ SamplesInside(chunks_left)
        /\ SamplesInside(chunks_right)
        /\ pc # "Crashed"
        /\ \A i \in 1..Len(sample_values) :
            HistogramTotal(sample_values[i]) = Len(chunks_left) + Len(chunks_right)

\* the cluster mutexes job t holds
HeldBy(t) == {c \in 1..Len(cluster_mutexes) : cluster_mutexes[c] = t}

OneMutexPerJob ==
    pc = "Scheduling" =>
        \A t \in 1..Len(cluster_jobs) :
            /\ Cardinality(HeldBy(t)) <= 1
            /\ HeldBy(t) # {} => cluster_jobs[t].state \in {"push", "unlock"}

\* C32: partitioning is deadlock-free and terminates.  A clustering task
\* holds at most one cluster mutex, and only around a single append; from
\* every reachable state of the clustering stage, under fair scheduling, all
\* tasks finish and the barriers of both _cluster calls return.
PartitioningTerminates == [](OneMutexPerJob) /\ (pc = "Scheduling" ~> pc = "Clustered")

\* C33: derived statistics stay inside the source statistics.  Whenever a
\* constant-value predicate on an integer column with min <= max and
\* distinct_count d >= 1 returns derived statistics (d', min', max'), then
\* min <= min' <= max' <= max and 0 <= d' <= d.
DerivedInsideSource ==
    (/\ estimate.call = "value"
     /\ statistics.type = "int32_t"
     /\ Returned
     /\ estimate.container.column_statistics # <<>>) =>
        LET derived == estimate.container.column_statistics[1]
            d == distinct_count(statistics)
        IN  /\ min(statistics) <= derived.min[1]
            /\ derived.min[1] <= derived.max[1]
            /\ derived.max[1] <= max(statistics)
            /\ ~FloatLess(derived.distinct_count[1], Zero)
            /\ ~FloatLess(d, derived.distinct_count[1])

\* C34: finish() always returns.  For every interleaving of the loop thread
\* with pause(), resume() and finish(), also when finish() runs while the
\* loop thread is between the evaluation of the wait predicate and the
\* blocking, the loop thread sees the shutdown flag and exits, and the join
\* inside finish() completes.
FinishReturns == finish_call = "called" ~> (loop_thread = "exited" /\ finish_call = "returned")

\* C35: resume() is never lost.  After a resume(), with no later pause() or
\* finish(), the loop thread reaches the call of loop_func again under fair
\* scheduling.
ResumeNeverLost ==
    (last_call = "resume" /\ finish_call = "none") ~>
        (loop_thread = "line25" \/ last_call # "resume" \/ finish_call # "none")

\* this step starts an invocation of loop_func
LoopFuncStarts == loop_thread = "line25" /\ loop_thread' = "line14"

\* pause() returned and no call was begun since
PauseReturned == last_call = "pause" /\ caller_pc = "idle"

\* C36: pause() takes effect.  Once a pause() call has returned, no new
\* invocation of loop_func starts until resume() is called.
PauseTakesEffect == [][PauseReturned => ~LoopFuncStarts]_vars

====
